---- MODULE Spec2Model ----
(***************************************************************************)
(* zync: offline-first synchronisation of a local record collection with   *)
(* a remote CRUD api.  The model follows the three-action variant of the   *)
(* engine (SyncAction = Create | Update | Remove): index.ts (syncOnce,     *)
(* setAndQueueToSync, enable), pull.ts (pull), push.ts (pushOne) and       *)
(* helpers.ts (findChanges, tryAddToPendingChanges, ...).                  *)
(*                                                                         *)
(* JavaScript objects are functions from key strings to integers; the      *)
(* value 0 stands for undefined, a missing key is a key outside DOMAIN.    *)
(* Asynchronous code is cut at its awaits on collaborator calls: the code  *)
(* between two such awaits runs in one step.                               *)
(***************************************************************************)
EXTENDS Integers, Sequences, FiniteSets, TLC

VARIABLES
    items,        \* state[stateKey]: the local records, in array order
    syncState,    \* state.syncState
    timerOn,      \* syncIntervalId is set
    cycles,       \* the suspended syncOnce invocations (one record per invocation)
    server,       \* the collaborator's records
    idCounter,    \* the collaborator's id sequence
    clock,        \* the time source of new Date()
    uuid,         \* the number of crypto.randomUUID() values handed out
    strategy,     \* syncOptions.conflictResolutionStrategy
    missing,      \* syncOptions.missingRemoteRecordDuringUpdateStrategy
    budget,       \* what the environment may still do (local operations, failures, remote edits)
    hist          \* history of the run, read by the properties only

vars == <<items, syncState, timerOn, cycles, server, idCounter, clock, uuid, strategy, missing, budget, hist>>

----------------------------------------------------------------------------
(* Bounds *)

MaxLocalOps == 3
MaxFails == 1
MaxFailsFaulty == 2
MaxRemoteOps == 1
MaxCycles == 2
Vals == {1, 2}
RemoteVals == {2, 3}
RemoteFields == {"name"}

----------------------------------------------------------------------------
(* Values and objects *)

Undef == 0
Null == [isNull |-> 1]
StateKey == "items"
UserFields == {"name", "extra"}

Get(o, k) == IF k \in DOMAIN o THEN o[k] ELSE Undef

\* { ...a, ...b }
Spread(a, b) == [k \in (DOMAIN a) \cup (DOMAIN b) |-> IF k \in DOMAIN b THEN b[k] ELSE a[k]]

Without(o, ks) == [k \in (DOMAIN o) \ ks |-> o[k]]

EmptyObj == [k \in {} |-> Undef]

Range(s) == {s[i] : i \in DOMAIN s}

\* F(x), with x evaluated once
Once(F(_), x) == CHOOSE r \in {F(v) : v \in {x}} : TRUE

SYNC_FIELDS == {"_localId", "updated_at", "deleted"}

omitSyncFields(item) == IF item = Null THEN EmptyObj ELSE Without(item, SYNC_FIELDS)

orderFor(a) == CASE a = "create" -> 1 [] a = "update" -> 2 [] a = "remove" -> 3

----------------------------------------------------------------------------
(* helpers.ts: findChanges *)

\* currentMap.get(localId): the last record of the array with that _localId
CurrOf(current, lid) ==
    LET idx == {i \in DOMAIN current : Get(current[i], "_localId") = lid}
    IN IF idx = {} THEN Null ELSE current[CHOOSE i \in idx : \A j \in idx : j <= i]

DiffOf(curr, item) ==
    LET ks == {k \in (DOMAIN curr) \ {"_localId"} : curr[k] # Get(item, k)}
    IN [k \in ks |-> Get(item, k)]

RECURSIVE ChangesAndAdditions(_, _, _)
ChangesAndAdditions(current, updated, i) ==
    IF i > Len(updated) THEN <<>>
    ELSE LET item == updated[i]
             lid == Get(item, "_localId")
             curr == CurrOf(current, lid)
             rest == ChangesAndAdditions(current, updated, i + 1)
         IN IF lid = Undef THEN rest
            ELSE IF curr # Null
                 THEN IF DOMAIN DiffOf(curr, item) # {}
                      THEN <<[localId |-> lid, currentItem |-> curr, updatedItem |-> item,
                              changes |-> DiffOf(curr, item),
                              id |-> IF Get(curr, "id") # Undef THEN curr["id"] ELSE Get(item, "id")]>> \o rest
                      ELSE rest
                 ELSE <<[localId |-> lid, currentItem |-> Null, updatedItem |-> item,
                         changes |-> item, id |-> Get(item, "id")]>> \o rest

RECURSIVE Deletions(_, _, _)
Deletions(current, updated, i) ==
    IF i > Len(current) THEN <<>>
    ELSE LET curr == current[i]
             lid == Get(curr, "_localId")
             rest == Deletions(current, updated, i + 1)
         IN IF lid # Undef /\ ~\E j \in DOMAIN updated : Get(updated[j], "_localId") = lid
            THEN <<[localId |-> lid, currentItem |-> curr, updatedItem |-> Null,
                    changes |-> Null, id |-> Get(curr, "id")]>> \o rest
            ELSE rest

findChanges(current, updated) ==
    ChangesAndAdditions(current, updated, 1) \o Deletions(current, updated, 1)

----------------------------------------------------------------------------
(* helpers.ts: the pending queue.  An entry is a PendingChange object; oid  *)
(* is the identity of the object, by which a cycle's changesSnapshot refers *)
(* to it.                                                                   *)

\* a lookup that compares nothing and so never finds the entry
FindNothing(q, lid, stateKey) == 0

FindIndex(q, lid, stateKey) ==
    LET idx == {i \in DOMAIN q : q[i].localId = lid /\ q[i].stateKey = stateKey}
    IN IF idx = {} THEN 0 ELSE CHOOSE i \in idx : \A j \in idx : i <= j

samePendingVersion(q, stateKey, lid, version) ==
    LET i == FindIndex(q, lid, stateKey)
    IN i # 0 /\ q[i].version = version

FilterOut(q, lid, stateKey) ==
    SelectSeq(q, LAMBDA p : ~(p.localId = lid /\ p.stateKey = stateKey))

\* the entry of a completed Create left as it is
LeftAsCreate(q, stateKey, lid, id) == q

setPendingChangeToUpdate(q, stateKey, lid, id) ==
    LET i == FindIndex(q, lid, stateKey)
    IN IF i = 0 THEN q
       ELSE [q EXCEPT ![i].action = "update", ![i].id = IF id # Undef THEN id ELSE @]

setPendingChangeBefore(q, stateKey, lid, before) ==
    LET i == FindIndex(q, lid, stateKey)
    IN IF i = 0 THEN q ELSE [q EXCEPT ![i].before = Spread(@, before)]

\* a conflict lookup that never finds one
NeverInConflict(conflicts, lid) == FALSE

hasConflicts(conflicts, lid) == lid \in DOMAIN conflicts

ActionOf(change) ==
    IF change.updatedItem = Null THEN "remove"
    ELSE IF change.currentItem = Null THEN "create" ELSE "update"

\* the payload of a change: its differing fields without the sync fields
ChangesOf(change) ==
    IF ActionOf(change) = "update"
       /\ change.currentItem["_localId"] # change.updatedItem["_localId"]
    THEN omitSyncFields(change.updatedItem)
    ELSE omitSyncFields(change.changes)

\* coalescing in which the earlier write of a field wins over the later one
FirstWriteWins(queueItem, change) ==
    IF queueItem.action = "remove" THEN queueItem
    ELSE IF ActionOf(change) = "remove"
         THEN [queueItem EXCEPT !.version = @ + 1, !.action = "remove"]
         ELSE [queueItem EXCEPT !.version = @ + 1,
                                !.changes = Spread(ChangesOf(change), @)]

\* helpers.ts 93-107: a further mutation of a record that has a queue entry
Coalesce(queueItem, change) ==
    IF queueItem.action = "remove" THEN queueItem
    ELSE IF ActionOf(change) = "remove"
         THEN [queueItem EXCEPT !.version = @ + 1, !.action = "remove"]
         ELSE IF DOMAIN omitSyncFields(change.changes) # {}
              THEN [queueItem EXCEPT !.version = @ + 1,
                                     !.changes = Spread(@, ChangesOf(change)),
                                     !.after = Spread(@, omitSyncFields(change.updatedItem))]
              ELSE [queueItem EXCEPT !.version = @ + 1]

\* helpers.ts 108-119: does a change of a record without queue entry insert one
Inserts(change) ==
    ActionOf(change) = "remove" \/ DOMAIN omitSyncFields(change.changes) # {}

NewEntry(oid, stateKey, change) ==
    [oid |-> oid, action |-> ActionOf(change), stateKey |-> stateKey,
     localId |-> change.localId, id |-> change.id, version |-> 1,
     changes |-> ChangesOf(change),
     before |-> omitSyncFields(change.currentItem),
     after |-> omitSyncFields(change.updatedItem)]

\* an object identity that neither the queue nor a snapshot holds
FreshOid(q, used) ==
    LET taken == {q[i].oid : i \in DOMAIN q} \cup used
    IN CHOOSE n \in 1..(Cardinality(taken) + 1) : n \notin taken

RECURSIVE tryAddToPendingChanges(_, _, _, _)
tryAddToPendingChanges(pendingChanges, stateKey, changes, used) ==
    IF changes = <<>> THEN pendingChanges
    ELSE LET change == Head(changes)
             i == FindIndex(pendingChanges, change.localId, stateKey)
             next == IF i # 0
                     THEN [pendingChanges EXCEPT ![i] = Coalesce(@, change)]
                     ELSE IF Inserts(change)
                          THEN Append(pendingChanges,
                                      NewEntry(FreshOid(pendingChanges, used), stateKey, change))
                          ELSE pendingChanges
         IN tryAddToPendingChanges(next, stateKey, Tail(changes), used)

----------------------------------------------------------------------------
(* The store as one value: W.items, W.ss (syncState), W.cycles, W.uuid,    *)
(* W.hist.  The operators below are the synchronous stretches of the code; *)
(* each maps a store value to the next one.                                *)

World == [items |-> items, ss |-> syncState, cycles |-> cycles, uuid |-> uuid, hist |-> hist]

NoError == [call |-> "none", left |-> 0]

\* the object identities the snapshots of the running cycles hold
SnapOids(cs) == UNION {{cs[i].snap[j].oid : j \in DOMAIN cs[i].snap} : i \in DOMAIN cs}

\* an entry that leaves the queue stays, as it is, in the snapshots that hold it
FreezeEl(el, q, lid, stateKey) ==
    IF el.dead = Null
       /\ \E k \in DOMAIN q : q[k].oid = el.oid /\ q[k].localId = lid /\ q[k].stateKey = stateKey
    THEN [el EXCEPT !.dead = CHOOSE e \in Range(q) : e.oid = el.oid]
    ELSE el

Freeze(cs, q, lid, stateKey) ==
    [i \in DOMAIN cs |->
        [cs[i] EXCEPT !.snap = [j \in DOMAIN cs[i].snap |-> FreezeEl(cs[i].snap[j], q, lid, stateKey)]]]

removeFromPendingChanges(W0, lid, stateKey) ==
    Once(LAMBDA W :
        [W EXCEPT !.ss.pendingChanges = FilterOut(@, lid, stateKey),
                  !.cycles = Freeze(@, W.ss.pendingChanges, lid, stateKey)]
    , W0)

\* a trigger that looks at the status only, not at enabled
SyncWhenIdle(W0) ==
    Once(LAMBDA W :
        IF W.ss.status # "idle" \/ Len(W.cycles) >= MaxCycles THEN W
        ELSE [W EXCEPT !.ss.status = "syncing",
                       !.cycles = Append(@, [pc |-> "list",
                                             since |-> Get(W.ss.lastPulled, StateKey),
                                             err |-> NoError,
                                             snap |-> <<>>,
                                             cur |-> Null])]
    , W0)

\* a trigger that looks at enabled only, not at the status
UnguardedSync(W0) ==
    Once(LAMBDA W :
        IF ~W.ss.enabled \/ Len(W.cycles) >= MaxCycles THEN W
        ELSE [W EXCEPT !.ss.status = "syncing",
                       !.cycles = Append(@, [pc |-> "list",
                                             since |-> Get(W.ss.lastPulled, StateKey),
                                             err |-> NoError,
                                             snap |-> <<>>,
                                             cur |-> Null])]
    , W0)

\* index.ts 114-123 and pull.ts 7-12: the guard, status 'syncing', and the
\* first pull up to its await of api.list
syncOnce(W0) ==
    Once(LAMBDA W :
        IF ~W.ss.enabled \/ W.ss.status # "idle" \/ Len(W.cycles) >= MaxCycles
        THEN [W EXCEPT !.hist.dropped = @ \/ (W.ss.enabled /\ W.ss.status = "syncing")]
        ELSE [W EXCEPT !.ss.status = "syncing",
                       !.cycles = Append(@, [pc |-> "list",
                                             since |-> Get(W.ss.lastPulled, StateKey),
                                             err |-> NoError,
                                             snap |-> <<>>,
                                             cur |-> Null])]
    , W0)

RemoveAt(s, i) == SubSeq(s, 1, i - 1) \o SubSeq(s, i + 1, Len(s))

\* index.ts 164-175: the end of a cycle and its immediate re-trigger
EndCycle(W0, i) ==
    Once(LAMBDA W :
        LET err == W.cycles[i].err
            W1 == [W EXCEPT !.ss.status = "idle", !.ss.error = err, !.cycles = RemoveAt(@, i)]
        IN IF Len(W1.ss.pendingChanges) > 0 /\ err = NoError THEN syncOnce(W1) ELSE W1
    , W0)

\* the PendingChange object a snapshot element refers to
Deref(W, el) ==
    IF el.dead # Null THEN el.dead
    ELSE CHOOSE e \in Range(W.ss.pendingChanges) : e.oid = el.oid

\* index.ts 144-162 with push.ts 26-47 and 107-108: the push loop, up to the
\* next await of a collaborator call or the end of the cycle
RECURSIVE RunPush(_, _)
RunPush(W0, i) ==
    Once(LAMBDA W :
        IF W.cycles[i].snap = <<>> THEN EndCycle(W, i)
        ELSE LET change == Deref(W, Head(W.cycles[i].snap))
                 W1 == [W EXCEPT !.cycles[i].snap = Tail(@), !.cycles[i].cur = change]
             IN CASE change.action = "remove" ->
                        IF change.id = Undef
                        THEN RunPush(removeFromPendingChanges(W1, change.localId, change.stateKey), i)
                        ELSE [W1 EXCEPT !.cycles[i].pc = "remove"]
                  [] change.action = "update" ->
                        IF hasConflicts(W1.ss.conflicts, change.localId)
                        THEN RunPush([W1 EXCEPT !.hist.held = @ \cup {change.localId}], i)
                        ELSE [W1 EXCEPT !.cycles[i].pc = "update"]
                  [] change.action = "create" ->
                        [W1 EXCEPT !.cycles[i].pc = "add"]
    , W0)

\* changesSnapshot.sort(...): a stable sort by orderFor
SortByOrder(q) ==
    SelectSeq(q, LAMBDA p : orderFor(p.action) = 1)
        \o SelectSeq(q, LAMBDA p : orderFor(p.action) = 2)
        \o SelectSeq(q, LAMBDA p : orderFor(p.action) = 3)

\* index.ts 138-142: the snapshot of the queue, then the push loop
StartPush(W0, i) ==
    Once(LAMBDA W :
        LET sorted == SortByOrder(W.ss.pendingChanges)
        IN RunPush([W EXCEPT !.cycles[i].snap = [j \in DOMAIN sorted |-> [oid |-> sorted[j].oid, dead |-> Null]],
                             !.cycles[i].pc = "push"], i)
    , W0)

\* a failed call whose error replaces the one the cycle holds
LastErrorKept(W0, i, err) ==
    Once(LAMBDA W :
        RunPush([W EXCEPT !.cycles[i].err = err], i)
    , W0)

\* a failed call that ends the cycle, leaving the rest of the snapshot
PushAborted(W0, i, err) ==
    Once(LAMBDA W :
        EndCycle([W EXCEPT !.cycles[i].err = IF @ = NoError THEN err ELSE @,
                           !.cycles[i].snap = <<>>], i)
    , W0)

\* a failed call whose change is taken off the queue as if it had succeeded
FailedCallForgotten(W0, i, err) ==
    Once(LAMBDA W :
        RunPush([removeFromPendingChanges(W, W.cycles[i].cur.localId, W.cycles[i].cur.stateKey)
                    EXCEPT !.cycles[i].err = IF @ = NoError THEN err ELSE @], i)
    , W0)

\* a raised error that is not caught: the cycle is gone and the final set of
\* syncOnce is never reached
PushUncaught(W0, i, err) ==
    Once(LAMBDA W :
        [W EXCEPT !.cycles = RemoveAt(@, i)]
    , W0)

\* index.ts 158-161: a collaborator call of the push loop raised
PushFailed(W0, i, err) ==
    Once(LAMBDA W :
        RunPush([W EXCEPT !.cycles[i].err = IF @ = NoError THEN err ELSE @], i)
    , W0)

----------------------------------------------------------------------------
(* pull.ts *)

\* localById.get(id): the last local record that carries the id
LocalById(localItems, id) ==
    LET idx == {i \in DOMAIN localItems : Get(localItems[i], "id") # Undef /\ localItems[i]["id"] = id}
    IN IF idx = {} THEN Null ELSE localItems[CHOOSE i \in idx : \A j \in idx : j <= i]

PendingRemovalById(pendingChanges, stateKey) ==
    {p.id : p \in {e \in Range(pendingChanges) : e.stateKey = stateKey /\ e.action = "remove"}}

ReplaceByLocalId(its, lid, merged) ==
    [j \in DOMAIN its |-> IF Get(its[j], "_localId") = lid THEN merged ELSE its[j]]

\* a comparison that finds no field in conflict
NoFieldDiffers(pendingChange, remote) == {}

\* pull.ts 71-73: the fields both sides changed, to different values
ConflictFields(pendingChange, remote) ==
    {[key |-> k, localValue |-> pendingChange.changes[k], remoteValue |-> remote[k]] :
        k \in {f \in DOMAIN pendingChange.changes :
                  /\ f \in DOMAIN pendingChange.before
                  /\ f \in DOMAIN remote
                  /\ pendingChange.before[f] # remote[f]
                  /\ pendingChange.changes[f] # remote[f]}}

\* a merge that takes every field from the remote record
RemoteFieldsOnly(localItem, pendingChange, remote) ==
    Spread(remote, [k \in {"_localId"} |-> localItem[k]])

\* pull.ts 81-87: the remote record with the locally changed fields kept
ShallowMerged(localItem, pendingChange, remote) ==
    LET keep == (DOMAIN pendingChange.changes) \cap (DOMAIN localItem)
        preservedLocal == [k \in keep \cup {"_localId"} |-> localItem[k]]
    IN Spread(remote, preservedLocal)

\* a pull that leaves the local copy of a record deleted on the server
KeepsDeleted(nextItems, remote) == nextItems

\* pull.ts 38-41: the local records with the id of the deleted remote record go
DropDeleted(nextItems, remote) == SelectSeq(nextItems, LAMBDA it : Get(it, "id") # remote["id"])

\* a pull that does not look at the pending removals
SkipsNone(removals, remote) == FALSE

\* pull.ts 32-35: is the remote record skipped because its removal is pending
SkipsPendingRemove(removals, remote) == Get(remote, "id") \in removals

\* the newest timestamp, counting the live records only
NewerOfLive(newest, remote) ==
    IF Get(remote, "deleted") = Undef /\ remote["updated_at"] > newest THEN remote["updated_at"] ELSE newest

\* pull.ts 28-29: the newest timestamp seen so far
Newer(newest, remote) ==
    IF remote["updated_at"] > newest THEN remote["updated_at"] ELSE newest

\* a merge that does not look for a pending change of the local record
MergeRemoteUnqueued(acc, remoteIn, localItems, removals, stateKey, strat) ==
    LET acc1 == [acc EXCEPT !.newest = Newer(@, remoteIn)]
        localItem == LocalById(localItems, Get(remoteIn, "id"))
        remote == Without(remoteIn, {"deleted"})
    IN IF SkipsPendingRemove(removals, remoteIn)
       THEN [acc1 EXCEPT !.skipped = @ \cup {remoteIn["id"]}]
       ELSE IF Get(remoteIn, "deleted") # Undef
       THEN IF localItem # Null
            THEN [acc1 EXCEPT !.nextItems = SelectSeq(@, LAMBDA it : Get(it, "id") # remoteIn["id"])]
            ELSE acc1
       ELSE IF localItem # Null
       THEN [acc1 EXCEPT !.nextItems = ReplaceByLocalId(@, localItem["_localId"], Spread(localItem, remote))]
       ELSE [acc1 EXCEPT !.nextItems = Append(@, Spread(remote, [_localId |-> acc1.uuid + 1])),
                         !.uuid = @ + 1]

\* pull.ts 27-106, one remote record.  acc: nextItems, pendingChanges,
\* conflicts, newest, uuid, skipped; localItems and removals are as the code
\* computed them before the loop
MergeRemote(acc, remoteIn, localItems, removals, stateKey, strat) ==
    LET acc1 == [acc EXCEPT !.newest = Newer(@, remoteIn)]
        localItem == LocalById(localItems, Get(remoteIn, "id"))
        remote == Without(remoteIn, {"deleted"})
    IN IF SkipsPendingRemove(removals, remoteIn)
       THEN [acc1 EXCEPT !.skipped = @ \cup {remoteIn["id"]}]
       ELSE IF Get(remoteIn, "deleted") # Undef
       THEN IF localItem # Null
            THEN [acc1 EXCEPT !.nextItems = DropDeleted(@, remoteIn)]
            ELSE acc1
       ELSE IF localItem # Null
       THEN LET lid == localItem["_localId"]
                k == FindIndex(acc1.pendingChanges, lid, stateKey)
            IN IF k # 0
               THEN CASE strat = "client-wins" -> acc1
                      [] strat = "server-wins" ->
                            [acc1 EXCEPT !.nextItems = ReplaceByLocalId(@, lid, Spread(remote, [_localId |-> lid])),
                                         !.pendingChanges = FilterOut(@, lid, stateKey)]
                      [] strat = "try-shallow-merge" ->
                            LET pendingChange == acc1.pendingChanges[k]
                                fields == ConflictFields(pendingChange, remote)
                            IN IF fields # {}
                               THEN [acc1 EXCEPT !.conflicts =
                                        [l \in DOMAIN @ \cup {lid} |->
                                            IF l = lid THEN [stateKey |-> stateKey, fields |-> fields] ELSE @[l]]]
                               ELSE [acc1 EXCEPT !.nextItems = ReplaceByLocalId(@, lid, ShallowMerged(localItem, pendingChange, remote)),
                                                 !.conflicts = [l \in DOMAIN @ \ {lid} |-> @[l]]]
                      [] OTHER -> acc1
               ELSE [acc1 EXCEPT !.nextItems = ReplaceByLocalId(@, lid, Spread(localItem, remote))]
       ELSE [acc1 EXCEPT !.nextItems = Append(@, Spread(remote, [_localId |-> acc1.uuid + 1])),
                         !.uuid = @ + 1]

RECURSIVE MergeBatch(_, _, _, _, _, _)
MergeBatch(acc, serverData, localItems, removals, stateKey, strat) ==
    IF serverData = <<>> THEN acc
    ELSE MergeBatch(MergeRemote(acc, Head(serverData), localItems, removals, stateKey, strat),
                    Tail(serverData), localItems, removals, stateKey, strat)

\* pull.ts 13-120: the continuation of pull after api.list returned serverData
pull(W0, stateKey, serverData, lastPulledAt, strat) ==
    Once(LAMBDA W :
        IF serverData = <<>> THEN W
        ELSE LET acc == MergeBatch([nextItems |-> W.items,
                                    pendingChanges |-> W.ss.pendingChanges,
                                    conflicts |-> W.ss.conflicts,
                                    newest |-> lastPulledAt,
                                    uuid |-> W.uuid,
                                    skipped |-> {}],
                                   serverData, W.items,
                                   PendingRemovalById(W.ss.pendingChanges, stateKey), stateKey, strat)
             IN [W EXCEPT !.items = acc.nextItems,
                          !.ss.pendingChanges = acc.pendingChanges,
                          !.ss.conflicts = acc.conflicts,
                          !.ss.lastPulled = Spread(@, [k \in {stateKey} |-> acc.newest]),
                          !.uuid = acc.uuid,
                          !.hist.skipped = acc.skipped]
    , W0)

----------------------------------------------------------------------------
(* index.ts: setAndQueueToSync *)

\* index.ts 196-213
newSyncState(W0, updated) ==
    Once(LAMBDA W :
        [W EXCEPT !.items = updated,
                  !.ss.pendingChanges =
                      tryAddToPendingChanges(@, StateKey, findChanges(W.items, updated), SnapOids(W.cycles))]
    , W0)

\* index.ts 187-194
setAndQueueToSync(W0, updated) ==
    Once(LAMBDA W :
        syncOnce(newSyncState(W, updated))
    , W0)

----------------------------------------------------------------------------
(* push.ts: the continuations of pushOne after its collaborator call *)

ForgetBurst(W0, lid) ==
    Once(LAMBDA W :
        [W EXCEPT !.hist.burst = [l \in DOMAIN @ \ {lid} |-> @[l]]]
    , W0)

\* the entry discarded when the call returns, whatever its version
DiscardedUnchecked(W0, change, result) ==
    Once(LAMBDA W :
        removeFromPendingChanges(W, change.localId, change.stateKey)
    , W0)

\* push.ts 117-122 and 130-132: the queue entry after api.add returned
AfterAdd(W0, change, result) ==
    Once(LAMBDA W :
        IF samePendingVersion(W.ss.pendingChanges, change.stateKey, change.localId, change.version)
        THEN ForgetBurst(removeFromPendingChanges(W, change.localId, change.stateKey), change.localId)
        ELSE IF result = Null THEN W
             ELSE [W EXCEPT !.ss.pendingChanges =
                                setPendingChangeToUpdate(@, change.stateKey, change.localId, Get(result, "id"))]
    , W0)

\* push.ts 108-134
AddDone(W0, i, result) ==
    Once(LAMBDA W :
        LET change == W.cycles[i].cur
            W1 == IF result = Null THEN W
                  ELSE [W EXCEPT !.items =
                            [j \in DOMAIN @ |-> IF Get(@[j], "_localId") = change.localId
                                                THEN Spread(@[j], result) ELSE @[j]]]
        IN RunPush(AfterAdd(W1, change, result), i)
    , W0)

\* push.ts 48-56: the queue entry after api.update returned true
AfterUpdate(W0, change) ==
    Once(LAMBDA W :
        IF samePendingVersion(W.ss.pendingChanges, change.stateKey, change.localId, change.version)
        THEN ForgetBurst(removeFromPendingChanges(W, change.localId, change.stateKey), change.localId)
        ELSE [W EXCEPT !.ss.pendingChanges =
                           setPendingChangeBefore(@, change.stateKey, change.localId, change.changes)]
    , W0)

\* push.ts 57-103: api.update returned false
MissingRemote(W0, change, strat, now) ==
    Once(LAMBDA W :
        LET item == CurrOf(W.items, change.localId)
            W1 == CASE strat = "delete-local-record" ->
                           [W EXCEPT !.items = SelectSeq(@, LAMBDA it : Get(it, "_localId") # change.localId)]
                    [] strat = "insert-remote-record" ->
                           LET newItem == Spread(item, [_localId |-> W.uuid + 1, updated_at |-> now])
                           IN setAndQueueToSync([W EXCEPT !.uuid = @ + 1],
                                                ReplaceByLocalId(W.items, change.localId, newItem))
                    [] OTHER -> W
        IN ForgetBurst(removeFromPendingChanges(IF item = Null THEN W ELSE W1, change.localId, change.stateKey),
                       change.localId)
    , W0)

\* push.ts 47-104
UpdateDone(W0, i, exists, strat, now) ==
    Once(LAMBDA W :
        LET change == W.cycles[i].cur
        IN RunPush(IF exists THEN AfterUpdate(W, change) ELSE MissingRemote(W, change, strat, now), i)
    , W0)

\* push.ts 36-39
RemoveDone(W0, i) ==
    Once(LAMBDA W :
        LET change == W.cycles[i].cur
        IN RunPush(ForgetBurst(removeFromPendingChanges(W, change.localId, change.stateKey), change.localId), i)
    , W0)

----------------------------------------------------------------------------
(* helpers.ts: resolveConflict *)

resolveConflict(W0, lid, keepLocalFields) ==
    Once(LAMBDA W :
        IF lid \notin DOMAIN W.ss.conflicts THEN W
        ELSE LET conflict == W.ss.conflicts[lid]
                 item == CurrOf(W.items, lid)
                 remoteValues == [k \in {f.key : f \in conflict.fields} |->
                                     (CHOOSE f \in conflict.fields : f.key = k).remoteValue]
                 resolved == IF keepLocalFields THEN item ELSE Spread(item, remoteValues)
                 W1 == IF keepLocalFields THEN W
                       ELSE ForgetBurst(removeFromPendingChanges(W, lid, conflict.stateKey), lid)
             IN IF item = Null THEN W
                ELSE [W1 EXCEPT !.items = ReplaceByLocalId(@, lid, resolved),
                                !.ss.conflicts = [l \in DOMAIN @ \ {lid} |-> @[l]]]
    , W0)

----------------------------------------------------------------------------
(* The collaborator, as the README and the test suites describe it: add     *)
(* assigns the next id, update and remove (a soft delete, itself an update) *)
(* address a record by id, the server stamps updated_at on every write,     *)
(* list returns what changed since.                                         *)

ServerIndex(srv, id) ==
    LET idx == {i \in DOMAIN srv : srv[i]["id"] = id}
    IN IF idx = {} THEN 0 ELSE CHOOSE i \in idx : \A j \in idx : i <= j

ServerAdd(srv, item, newId, now) ==
    Append(srv, Spread(Spread([id |-> newId], item), [updated_at |-> now]))

ServerAssign(srv, id, changes, now) ==
    LET i == ServerIndex(srv, id)
    IN IF i = 0 THEN srv ELSE [srv EXCEPT ![i] = Spread(Spread(@, changes), [updated_at |-> now])]

ServerList(srv, lastUpdatedAt) == SelectSeq(srv, LAMBDA r : r["updated_at"] > lastUpdatedAt)

----------------------------------------------------------------------------
(* The state machine *)

Strategies == {"local-wins", "remote-wins", "try-shallow-merge"}

InitShared ==
    /\ items = <<>>
    /\ syncState = [status |-> "idle", enabled |-> FALSE, error |-> NoError,
                    firstLoadDone |-> FALSE, pendingChanges |-> <<>>,
                    lastPulled |-> EmptyObj, conflicts |-> EmptyObj]
    /\ timerOn = FALSE
    /\ cycles = <<>>
    /\ server = <<>>
    /\ idCounter = 0
    /\ clock = 0
    /\ uuid = 0
    /\ missing = "ignore"
    /\ hist = [addLog |-> {}, burst |-> EmptyObj, skipped |-> {}, dropped |-> FALSE, removed |-> {}, held |-> {}]

Init ==
    /\ InitShared
    /\ strategy \in Strategies
    /\ budget = [ops |-> MaxLocalOps, fails |-> MaxFails, remote |-> MaxRemoteOps]

\* the store takes the value W (W is evaluated once)
SetWorld(W) ==
    \E w \in {W} :
        /\ items' = w.items
        /\ syncState' = w.ss
        /\ cycles' = w.cycles
        /\ uuid' = w.uuid
        /\ hist' = w.hist

LocalIds == {Get(items[j], "_localId") : j \in DOMAIN items}

\* the application adds a record through setAndQueueToSync
LocalAdd(v) ==
    /\ budget.ops > 0
    /\ budget' = [budget EXCEPT !.ops = @ - 1]
    /\ SetWorld(setAndQueueToSync([World EXCEPT !.uuid = @ + 1],
                                  Append(items, [_localId |-> uuid + 1, name |-> v, extra |-> 1,
                                                 updated_at |-> clock])))
    /\ UNCHANGED <<timerOn, server, idCounter, clock, strategy, missing>>

\* history: the updates coalesced into the entry of lid
NoteUpdate(W0, lid, payload) ==
    Once(LAMBDA W :
        IF FindIndex(syncState.pendingChanges, lid, StateKey) = 0
        THEN [W EXCEPT !.hist.burst = Spread(@, [l \in {lid} |-> [n |-> 1, acc |-> payload]])]
        ELSE IF lid \in DOMAIN W.hist.burst
             THEN [W EXCEPT !.hist.burst[lid] = [n |-> @.n + 1, acc |-> Spread(@.acc, payload)]]
             ELSE W
    , W0)

\* the application changes one field of a record through setAndQueueToSync
LocalUpdate(lid, f, v) ==
    /\ budget.ops > 0
    /\ lid \in LocalIds
    /\ Get(CurrOf(items, lid), f) # v
    /\ budget' = [budget EXCEPT !.ops = @ - 1]
    /\ SetWorld(NoteUpdate(setAndQueueToSync(World,
                    ReplaceByLocalId(items, lid, Spread(CurrOf(items, lid), [k \in {f} |-> v]))),
                    lid, [k \in {f} |-> v]))
    /\ UNCHANGED <<timerOn, server, idCounter, clock, strategy, missing>>

\* history: the records the application removed, with the id they had then
NoteRemove(W0, lid) ==
    Once(LAMBDA W :
        [W EXCEPT !.hist.removed = @ \cup {[localId |-> lid, id |-> Get(CurrOf(items, lid), "id")]}]
    , W0)

\* the application removes a record through setAndQueueToSync
LocalRemove(lid) ==
    /\ budget.ops > 0
    /\ lid \in LocalIds
    /\ budget' = [budget EXCEPT !.ops = @ - 1]
    /\ SetWorld(NoteRemove(ForgetBurst(setAndQueueToSync(World,
                    SelectSeq(items, LAMBDA it : Get(it, "_localId") # lid)), lid), lid))
    /\ UNCHANGED <<timerOn, server, idCounter, clock, strategy, missing>>

\* index.ts 215-234: enable(enabled)
Enable(enabled) ==
    /\ syncState.enabled # enabled
    /\ timerOn' = enabled
    /\ SetWorld(IF enabled THEN syncOnce([World EXCEPT !.ss.enabled = TRUE])
                ELSE [World EXCEPT !.ss.enabled = FALSE])
    /\ UNCHANGED <<server, idCounter, clock, strategy, missing, budget>>

\* the interval timer fires
Tick ==
    /\ timerOn
    /\ SetWorld(syncOnce(World))
    /\ UNCHANGED <<timerOn, server, idCounter, clock, strategy, missing, budget>>

\* index.ts 236-252: the document becomes visible or hidden; the listener is
\* registered by enable(true) and removed by enable(false)
VisibilityChange(visible) ==
    /\ syncState.enabled
    /\ timerOn' = visible
    /\ SetWorld(IF visible THEN syncOnce(World) ELSE World)
    /\ UNCHANGED <<server, idCounter, clock, strategy, missing, budget>>

\* api.list returns
ListOk(i) ==
    /\ cycles[i].pc = "list"
    /\ SetWorld(StartPush(pull(World, StateKey, ServerList(server, cycles[i].since),
                               cycles[i].since, strategy), i))
    /\ UNCHANGED <<timerOn, server, idCounter, clock, strategy, missing, budget>>

\* the Error object a failing call raises: the call and, to tell the errors
\* of one run apart, the failures the environment had left
Raised(call) == [call |-> call, left |-> budget.fails]

\* api.list raises
ListFail(i) ==
    /\ cycles[i].pc = "list"
    /\ budget.fails > 0
    /\ budget' = [budget EXCEPT !.fails = @ - 1]
    /\ SetWorld(StartPush([World EXCEPT !.cycles[i].err = Raised("list")], i))
    /\ UNCHANGED <<timerOn, server, idCounter, clock, strategy, missing>>

\* api.add creates the record and returns its id and timestamp
AddOk(i) ==
    /\ cycles[i].pc = "add"
    /\ LET srv == ServerAdd(server, cycles[i].cur.changes, idCounter + 1, clock + 1)
           rec == srv[Len(srv)]
       IN /\ server' = srv
          /\ SetWorld(AddDone([World EXCEPT !.hist.addLog = @ \cup {<<cycles[i].cur.localId, Len(srv)>>}],
                              i, [id |-> rec["id"], updated_at |-> rec["updated_at"]]))
    /\ idCounter' = idCounter + 1
    /\ clock' = clock + 1
    /\ UNCHANGED <<timerOn, strategy, missing, budget>>

\* api.update returns whether the record exists
UpdateOk(i) ==
    /\ cycles[i].pc = "update"
    /\ LET exists == ServerIndex(server, cycles[i].cur.id) # 0
       IN /\ server' = ServerAssign(server, cycles[i].cur.id, cycles[i].cur.changes, clock + 1)
          /\ clock' = IF exists THEN clock + 1 ELSE clock
          /\ SetWorld(UpdateDone(World, i, exists, missing, clock))
    /\ UNCHANGED <<timerOn, idCounter, strategy, missing, budget>>

\* api.remove flags the record deleted
RemoveOk(i) ==
    /\ cycles[i].pc = "remove"
    /\ server' = ServerAssign(server, cycles[i].cur.id, [deleted |-> 1], clock + 1)
    /\ clock' = IF ServerIndex(server, cycles[i].cur.id) # 0 THEN clock + 1 ELSE clock
    /\ SetWorld(RemoveDone(World, i))
    /\ UNCHANGED <<timerOn, idCounter, strategy, missing, budget>>

\* api.add, api.update or api.remove raises
CallFail(i) ==
    /\ cycles[i].pc \in {"add", "update", "remove"}
    /\ budget.fails > 0
    /\ budget' = [budget EXCEPT !.fails = @ - 1]
    /\ SetWorld(PushFailed(World, i, Raised(cycles[i].pc)))
    /\ UNCHANGED <<timerOn, server, idCounter, clock, strategy, missing>>

\* another client changes a field of a server record
RemoteEdit(id, f, v) ==
    /\ budget.remote > 0
    /\ ServerIndex(server, id) # 0
    /\ Get(server[ServerIndex(server, id)], "deleted") = Undef
    /\ Get(server[ServerIndex(server, id)], f) # v
    /\ budget' = [budget EXCEPT !.remote = @ - 1]
    /\ server' = ServerAssign(server, id, [k \in {f} |-> v], clock + 1)
    /\ clock' = clock + 1
    /\ UNCHANGED <<items, syncState, timerOn, cycles, idCounter, uuid, strategy, missing, hist>>

\* the application resolves a tracked conflict
ResolveConflict(lid, keepLocalFields) ==
    /\ lid \in DOMAIN syncState.conflicts
    /\ SetWorld(resolveConflict(World, lid, keepLocalFields))
    /\ UNCHANGED <<timerOn, server, idCounter, clock, strategy, missing, budget>>

ServerIds == {server[j]["id"] : j \in DOMAIN server}

Next ==
    \/ \E v \in Vals : LocalAdd(v)
    \/ \E lid \in LocalIds, f \in UserFields, v \in Vals : LocalUpdate(lid, f, v)
    \/ \E lid \in LocalIds : LocalRemove(lid)
    \/ \E b \in BOOLEAN : Enable(b)
    \/ Tick
    \/ \E i \in DOMAIN cycles : ListOk(i)
    \/ \E i \in DOMAIN cycles : ListFail(i)
    \/ \E i \in DOMAIN cycles : AddOk(i)
    \/ \E i \in DOMAIN cycles : UpdateOk(i)
    \/ \E i \in DOMAIN cycles : RemoveOk(i)
    \/ \E i \in DOMAIN cycles : CallFail(i)
    \/ \E id \in ServerIds, f \in RemoteFields, v \in RemoteVals : RemoteEdit(id, f, v)
    \/ \E lid \in DOMAIN syncState.conflicts, k \in BOOLEAN : ResolveConflict(lid, k)

Spec == Init /\ [][Next]_vars

----------------------------------------------------------------------------
(* One client alone, with the default strategies (local-wins, ignore), sync *)
(* enabled by the application; every collaborator call returns or raises    *)
(* after a finite time and the interval timer keeps firing.                 *)

InitLocal ==
    /\ InitShared
    /\ strategy = "local-wins"
    /\ budget = [ops |-> MaxLocalOps, fails |-> MaxFails, remote |-> 0]

NextLocal ==
    \/ \E v \in Vals : LocalAdd(v)
    \/ \E lid \in LocalIds, f \in UserFields, v \in Vals : LocalUpdate(lid, f, v)
    \/ \E lid \in LocalIds : LocalRemove(lid)
    \/ Enable(TRUE)
    \/ Tick
    \/ \E i \in DOMAIN cycles : ListOk(i)
    \/ \E i \in DOMAIN cycles : ListFail(i)
    \/ \E i \in DOMAIN cycles : AddOk(i)
    \/ \E i \in DOMAIN cycles : UpdateOk(i)
    \/ \E i \in DOMAIN cycles : RemoveOk(i)
    \/ \E i \in DOMAIN cycles : CallFail(i)

Returns ==
    \E i \in DOMAIN cycles : ListOk(i) \/ AddOk(i) \/ UpdateOk(i) \/ RemoveOk(i)

SpecLocal ==
    /\ InitLocal
    /\ [][NextLocal]_vars
    /\ WF_vars(Enable(TRUE))
    /\ WF_vars(Tick)
    /\ WF_vars(Returns)

----------------------------------------------------------------------------
(* One client alone whose collaborator may raise more than once, so that    *)
(* several calls of one cycle can fail.                                     *)

InitFaulty ==
    /\ InitShared
    /\ strategy = "local-wins"
    /\ budget = [ops |-> MaxLocalOps, fails |-> MaxFailsFaulty, remote |-> 0]

SpecFaulty == InitFaulty /\ [][NextLocal]_vars

----------------------------------------------------------------------------
(* One client alone whose application switches sync on and off and whose    *)
(* document is shown and hidden.                                            *)

NextScheduled ==
    \/ NextLocal
    \/ Enable(FALSE)
    \/ \E visible \in BOOLEAN : VisibilityChange(visible)

SpecScheduled == InitLocal /\ [][NextScheduled]_vars

----------------------------------------------------------------------------
(* One client alone under each missingRemoteRecordDuringUpdateStrategy,     *)
(* while the collaborator may lose a record, so that api.update returns     *)
(* false.                                                                   *)

MissingStrategies == {"ignore", "delete-local-record", "insert-remote-record"}

\* the record is gone from the server (not flagged deleted: gone)
RemotePurge(id) ==
    /\ budget.remote > 0
    /\ ServerIndex(server, id) # 0
    /\ budget' = [budget EXCEPT !.remote = @ - 1]
    /\ server' = SelectSeq(server, LAMBDA r : r["id"] # id)
    /\ UNCHANGED <<items, syncState, timerOn, cycles, idCounter, clock, uuid, strategy, missing, hist>>

InitMissing ==
    /\ items = <<>>
    /\ syncState = [status |-> "idle", enabled |-> FALSE, error |-> NoError,
                    firstLoadDone |-> FALSE, pendingChanges |-> <<>>,
                    lastPulled |-> EmptyObj, conflicts |-> EmptyObj]
    /\ timerOn = FALSE
    /\ cycles = <<>>
    /\ server = <<>>
    /\ idCounter = 0
    /\ clock = 0
    /\ uuid = 0
    /\ missing \in MissingStrategies
    /\ hist = [addLog |-> {}, burst |-> EmptyObj, skipped |-> {}, dropped |-> FALSE, removed |-> {}, held |-> {}]
    /\ strategy = "local-wins"
    /\ budget = [ops |-> MaxLocalOps, fails |-> MaxFails, remote |-> MaxRemoteOps]

NextMissing ==
    \/ NextLocal
    \/ \E id \in ServerIds : RemotePurge(id)

SpecMissing == InitMissing /\ [][NextMissing]_vars

----------------------------------------------------------------------------
(* One client alone that starts from persisted state: three records that    *)
(* were synced before, some of them edited since, with the Update entries   *)
(* of those edits in the queue.                                             *)

MaxSynced == 3
MaxResumedOps == 2

Synced == [k \in 1..MaxSynced |-> [id |-> k, _localId |-> k, name |-> 1, extra |-> 1, updated_at |-> k]]

EditedSince(edited) ==
    [k \in 1..MaxSynced |-> IF k \in edited THEN Spread(Synced[k], [name |-> 2]) ELSE Synced[k]]

InitResumed ==
    /\ \E edited \in SUBSET (1..MaxSynced) :
          /\ items = EditedSince(edited)
          /\ syncState = [status |-> "idle", enabled |-> FALSE, error |-> NoError,
                          firstLoadDone |-> FALSE,
                          pendingChanges |-> tryAddToPendingChanges(<<>>, StateKey,
                                                 findChanges(Synced, EditedSince(edited)), {}),
                          lastPulled |-> [k \in {StateKey} |-> MaxSynced],
                          conflicts |-> EmptyObj]
    /\ timerOn = FALSE
    /\ cycles = <<>>
    /\ server = [k \in 1..MaxSynced |-> Without(Synced[k], {"_localId"})]
    /\ idCounter = MaxSynced
    /\ clock = MaxSynced
    /\ uuid = MaxSynced
    /\ missing = "ignore"
    /\ strategy = "local-wins"
    /\ hist = [addLog |-> {}, burst |-> EmptyObj, skipped |-> {}, dropped |-> FALSE, removed |-> {}, held |-> {}]
    /\ budget = [ops |-> MaxResumedOps, fails |-> MaxFails, remote |-> 0]

SpecResumed == InitResumed /\ [][NextLocal]_vars

----------------------------------------------------------------------------
(* One client alone whose application may assign the id of a record itself  *)
(* when it adds it (helpers.ts 122-123, README: client assigned ids).       *)

ClientIds == {9}

\* the application adds a record that carries an id already
LocalAddWithId(v, id) ==
    /\ budget.ops > 0
    /\ \A j \in DOMAIN items : Get(items[j], "id") # id
    /\ budget' = [budget EXCEPT !.ops = @ - 1]
    /\ SetWorld(setAndQueueToSync([World EXCEPT !.uuid = @ + 1],
                                  Append(items, [_localId |-> uuid + 1, id |-> id, name |-> v, extra |-> 1,
                                                 updated_at |-> clock])))
    /\ UNCHANGED <<timerOn, server, idCounter, clock, strategy, missing>>

NextClientIds ==
    \/ NextLocal
    \/ \E v \in Vals, id \in ClientIds : LocalAddWithId(v, id)

SpecClientIds == InitLocal /\ [][NextClientIds]_vars

----------------------------------------------------------------------------
(* One client next to another one that soft-deletes records on the server   *)
(* and restores them (deleted: false).                                      *)

MaxRemoteChanges == 2

\* another client deletes a record: the server sets its deleted flag
RemoteDelete(id) ==
    /\ budget.remote > 0
    /\ ServerIndex(server, id) # 0
    /\ Get(server[ServerIndex(server, id)], "deleted") = Undef
    /\ budget' = [budget EXCEPT !.remote = @ - 1]
    /\ server' = ServerAssign(server, id, [deleted |-> 1], clock + 1)
    /\ clock' = clock + 1
    /\ UNCHANGED <<items, syncState, timerOn, cycles, idCounter, uuid, strategy, missing, hist>>

\* another client restores a deleted record: the flag stays, with value false
RemoteRestore(id) ==
    /\ budget.remote > 0
    /\ ServerIndex(server, id) # 0
    /\ Get(server[ServerIndex(server, id)], "deleted") # Undef
    /\ budget' = [budget EXCEPT !.remote = @ - 1]
    /\ server' = ServerAssign(server, id, [deleted |-> 0], clock + 1)
    /\ clock' = clock + 1
    /\ UNCHANGED <<items, syncState, timerOn, cycles, idCounter, uuid, strategy, missing, hist>>

InitDeleting ==
    /\ InitShared
    /\ strategy \in Strategies
    /\ budget = [ops |-> MaxLocalOps, fails |-> MaxFails, remote |-> MaxRemoteChanges]

NextDeleting ==
    \/ NextLocal
    \/ \E id \in ServerIds : RemoteDelete(id)
    \/ \E id \in ServerIds : RemoteRestore(id)

SpecDeleting == InitDeleting /\ [][NextDeleting]_vars

----------------------------------------------------------------------------
(* findChanges on arbitrary inputs: the application replaces the whole      *)
(* collection through setAndQueueToSync.  A record may lack _localId, it    *)
(* may or may not have a server id, and the updated record may have a field *)
(* the current one has not, or lack one it has.                             *)

MaxListLen == 2
MaxSets == 2

Records ==
    {[_localId |-> l, name |-> n] : l \in 1..2, n \in Vals}
        \cup {[_localId |-> l, name |-> n, extra |-> 1] : l \in 1..2, n \in Vals}
        \cup {[_localId |-> l, id |-> l, name |-> 1] : l \in 1..2}
        \cup {[name |-> 1]}

\* the arrays the application may hold: no _localId occurs twice
Lists ==
    {l \in UNION {[1..n -> Records] : n \in 0..MaxListLen} :
        \A i, j \in DOMAIN l : (i # j /\ Get(l[i], "_localId") # Undef) => Get(l[i], "_localId") # Get(l[j], "_localId")}

\* the application sets the collection to updated
LocalSet(updated) ==
    /\ budget.ops > 0
    /\ updated # items
    /\ budget' = [budget EXCEPT !.ops = @ - 1]
    /\ SetWorld(setAndQueueToSync(World, updated))
    /\ UNCHANGED <<timerOn, server, idCounter, clock, strategy, missing>>

InitDiff ==
    /\ items \in Lists
    /\ syncState = [status |-> "idle", enabled |-> FALSE, error |-> NoError,
                    firstLoadDone |-> FALSE, pendingChanges |-> <<>>,
                    lastPulled |-> EmptyObj, conflicts |-> EmptyObj]
    /\ timerOn = FALSE
    /\ cycles = <<>>
    /\ server = <<>>
    /\ idCounter = 0
    /\ clock = 0
    /\ uuid = 2
    /\ missing = "ignore"
    /\ strategy = "local-wins"
    /\ hist = [addLog |-> {}, burst |-> EmptyObj, skipped |-> {}, dropped |-> FALSE, removed |-> {}, held |-> {}]
    /\ budget = [ops |-> MaxSets, fails |-> 0, remote |-> 0]

NextDiff == \E updated \in Lists : LocalSet(updated)

SpecDiff == InitDiff /\ [][NextDiff]_vars

----------------------------------------------------------------------------
(* One client alone whose application also changes the collection past the  *)
(* queue, through setAndSyncOnce.                                           *)

\* index.ts 178-185: the application drops a record without queueing the
\* removal
LocalDrop(lid) ==
    /\ budget.ops > 0
    /\ lid \in LocalIds
    /\ budget' = [budget EXCEPT !.ops = @ - 1]
    /\ SetWorld(syncOnce([World EXCEPT !.items = SelectSeq(@, LAMBDA it : Get(it, "_localId") # lid)]))
    /\ UNCHANGED <<timerOn, server, idCounter, clock, strategy, missing>>

NextBypass ==
    \/ NextLocal
    \/ \E lid \in LocalIds : LocalDrop(lid)

SpecBypass == InitLocal /\ [][NextBypass]_vars

----------------------------------------------------------------------------
(* One client alone whose collaborator may return nothing from api.add.     *)

MaxSilent == 1

\* api.add returns undefined; the server has stored nothing
AddNothing(i) ==
    /\ cycles[i].pc = "add"
    /\ budget.silent > 0
    /\ budget' = [budget EXCEPT !.silent = @ - 1]
    /\ SetWorld(AddDone(World, i, Null))
    /\ UNCHANGED <<timerOn, server, idCounter, clock, strategy, missing>>

InitSilent ==
    /\ InitShared
    /\ strategy = "local-wins"
    /\ budget = [ops |-> MaxLocalOps, fails |-> MaxFails, remote |-> 0, silent |-> MaxSilent]

NextSilent ==
    \/ NextLocal
    \/ \E i \in DOMAIN cycles : AddNothing(i)

SpecSilent == InitSilent /\ [][NextSilent]_vars

----------------------------------------------------------------------------
(* firstLoad.ts: startFirstLoad pages through the whole collection.  A load *)
(* in progress is an entry of cycles with pc "firstLoad" that waits for     *)
(* api.firstLoad(lastId).  The collaborator is userland code: it may return *)
(* any page of server records.  hist.pages logs the pages returned, each    *)
(* with the load it was returned to.                                        *)

MaxLoads == 2
MaxPages == 4
MaxPageLen == 2

DuplicateRecords == [call |-> "firstLoad: duplicate records", left |-> 0]

\* firstLoad.ts 126-150: one record of the batch
FirstLoadRecord(acc, remote, local) ==
    LET newest == Newer(acc.newest, remote)
        localItem == IF Get(remote, "id") # Undef THEN LocalById(local, remote["id"]) ELSE Null
    IN IF Get(remote, "deleted") # Undef THEN [acc EXCEPT !.newest = newest]
       ELSE IF localItem # Null
            THEN [acc EXCEPT !.newest = newest,
                             !.next = ReplaceByLocalId(@, localItem["_localId"],
                                                       Spread(Spread(localItem, remote),
                                                              [_localId |-> localItem["_localId"]]))]
            ELSE [acc EXCEPT !.newest = newest,
                             !.next = Append(@, Spread(remote, [_localId |-> acc.uuid + 1])),
                             !.uuid = @ + 1]

RECURSIVE FirstLoadRecords(_, _, _)
FirstLoadRecords(acc, batch, local) ==
    IF batch = <<>> THEN acc
    ELSE FirstLoadRecords(FirstLoadRecord(acc, Head(batch), local), Tail(batch), local)

\* firstLoad.ts 121-163: set() merges the batch
FirstLoadMerge(W0, stateKey, batch) ==
    Once(LAMBDA W :
        LET acc == FirstLoadRecords([next |-> W.items, newest |-> Get(W.ss.lastPulled, stateKey), uuid |-> W.uuid],
                                    batch, W.items)
        IN [W EXCEPT !.items = acc.next,
                     !.ss.lastPulled = Spread(@, [k \in {stateKey} |-> acc.newest]),
                     !.uuid = acc.uuid]
    , W0)

\* firstLoad.ts 174-186: the load of the only collection is over
FirstLoadEnd(W0, i, syncError) ==
    Once(LAMBDA W :
        [W EXCEPT !.ss.firstLoadDone = TRUE,
                  !.ss.error = syncError,
                  !.cycles = RemoveAt(@, i)]
    , W0)

\* a loop that does not compare the cursors of consecutive pages
PageUnchecked(W0, i, batch) ==
    Once(LAMBDA W :
        IF batch = <<>> THEN FirstLoadEnd(W, i, NoError)
        ELSE [FirstLoadMerge(W, StateKey, batch) EXCEPT !.cycles[i].lastId = batch[Len(batch)]["id"]]
    , W0)

\* firstLoad.ts 117-170: the continuation of the loop after api.firstLoad
\* returned batch
firstLoadPage(W0, i, batch) ==
    Once(LAMBDA W :
        IF batch = <<>> THEN FirstLoadEnd(W, i, NoError)
        ELSE LET W1 == FirstLoadMerge(W, StateKey, batch)
                 lastId == W.cycles[i].lastId
             IN IF lastId # Undef /\ lastId = batch[Len(batch)]["id"]
                THEN FirstLoadEnd(W1, i, DuplicateRecords)
                ELSE [W1 EXCEPT !.cycles[i].lastId = batch[Len(batch)]["id"]]
    , W0)

\* the pages api.firstLoad may return
Pages(srv) == UNION {[1..n -> Range(srv)] : n \in 0..MaxPageLen}

\* index.ts 257: the application calls startFirstLoad
StartFirstLoad ==
    /\ budget.ops > 0
    /\ budget' = [budget EXCEPT !.ops = @ - 1]
    /\ cycles' = Append(cycles, [pc |-> "firstLoad", pid |-> budget.ops, lastId |-> Undef, snap |-> <<>>])
    /\ UNCHANGED <<items, syncState, timerOn, server, idCounter, clock, uuid, strategy, missing, hist>>

\* api.firstLoad(lastId) returns a page
FirstLoadPage(i, batch) ==
    /\ cycles[i].pc = "firstLoad"
    /\ Len(hist.pages) < MaxPages
    /\ SetWorld(firstLoadPage([World EXCEPT !.hist.pages = Append(@, [pid |-> cycles[i].pid, page |-> batch])],
                              i, batch))
    /\ UNCHANGED <<timerOn, server, idCounter, clock, strategy, missing, budget>>

\* api.firstLoad raises
FirstLoadFail(i) ==
    /\ cycles[i].pc = "firstLoad"
    /\ budget.fails > 0
    /\ budget' = [budget EXCEPT !.fails = @ - 1]
    /\ SetWorld(FirstLoadEnd(World, i, Raised("firstLoad")))
    /\ UNCHANGED <<timerOn, server, idCounter, clock, strategy, missing>>

\* a server that holds two records already, the second possibly deleted
InitFirstLoad ==
    /\ items = <<>>
    /\ syncState = [status |-> "idle", enabled |-> FALSE, error |-> NoError,
                    firstLoadDone |-> FALSE, pendingChanges |-> <<>>,
                    lastPulled |-> EmptyObj, conflicts |-> EmptyObj]
    /\ timerOn = FALSE
    /\ cycles = <<>>
    /\ server \in {<<[id |-> 1, name |-> 1, updated_at |-> 1], r2>> :
                      r2 \in {[id |-> 2, name |-> 2, updated_at |-> 2],
                              [id |-> 2, name |-> 2, updated_at |-> 2, deleted |-> 1]}}
    /\ idCounter = 2
    /\ clock = 2
    /\ uuid = 0
    /\ missing = "ignore"
    /\ strategy = "local-wins"
    /\ hist = [addLog |-> {}, burst |-> EmptyObj, skipped |-> {}, dropped |-> FALSE, removed |-> {}, held |-> {},
               pages |-> <<>>]
    /\ budget = [ops |-> MaxLoads, fails |-> MaxFails, remote |-> 0]

NextFirstLoad ==
    \/ StartFirstLoad
    \/ \E i \in DOMAIN cycles, batch \in Pages(server) : FirstLoadPage(i, batch)
    \/ \E i \in DOMAIN cycles : FirstLoadFail(i)

SpecFirstLoad == InitFirstLoad /\ [][NextFirstLoad]_vars

----------------------------------------------------------------------------
(* The sync engine next to startFirstLoad, with another client that edits   *)
(* and deletes records, and with responses that take time: the server       *)
(* handles api.list and api.add at one moment and the response reaches the  *)
(* client at a later one.  api.firstLoad is the one of the README: the      *)
(* records after lastId, in ascending order of id, one page at a time.      *)

MaxLoadingOps == 2

\* README 270-282: firstLoad(lastId)
HonestPage(srv, lastId) ==
    LET after == SelectSeq(srv, LAMBDA r : r["id"] > lastId)
    IN SubSeq(after, 1, IF Len(after) < MaxPageLen THEN Len(after) ELSE MaxPageLen)

\* the server answers api.list; the response is on its way
ListReceived(i) ==
    /\ cycles[i].pc = "list"
    /\ cycles' = [cycles EXCEPT ![i] = Spread(@, [pc |-> "listed", batch |-> ServerList(server, cycles[i].since)])]
    /\ UNCHANGED <<items, syncState, timerOn, server, idCounter, clock, uuid, strategy, missing, budget, hist>>

\* the response of api.list arrives
ListReplied(i) ==
    /\ cycles[i].pc = "listed"
    /\ SetWorld(StartPush(pull(World, StateKey, cycles[i].batch, cycles[i].since, strategy), i))
    /\ UNCHANGED <<timerOn, server, idCounter, clock, strategy, missing, budget>>

\* the server stores the record of api.add; the response is on its way
AddReceived(i) ==
    /\ cycles[i].pc = "add"
    /\ LET srv == ServerAdd(server, cycles[i].cur.changes, idCounter + 1, clock + 1)
           rec == srv[Len(srv)]
       IN /\ server' = srv
          /\ cycles' = [cycles EXCEPT ![i] = Spread(@, [pc |-> "added",
                                                        result |-> [id |-> rec["id"], updated_at |-> rec["updated_at"]]])]
          /\ hist' = [hist EXCEPT !.addLog = @ \cup {<<cycles[i].cur.localId, Len(srv)>>}]
    /\ idCounter' = idCounter + 1
    /\ clock' = clock + 1
    /\ UNCHANGED <<items, syncState, timerOn, uuid, strategy, missing, budget>>

\* the response of api.add arrives
AddReplied(i) ==
    /\ cycles[i].pc = "added"
    /\ SetWorld(AddDone(World, i, cycles[i].result))
    /\ UNCHANGED <<timerOn, server, idCounter, clock, strategy, missing, budget>>

InitLoading ==
    /\ items = <<>>
    /\ syncState = [status |-> "idle", enabled |-> FALSE, error |-> NoError,
                    firstLoadDone |-> FALSE, pendingChanges |-> <<>>,
                    lastPulled |-> EmptyObj, conflicts |-> EmptyObj]
    /\ timerOn = FALSE
    /\ cycles = <<>>
    /\ server = <<[id |-> 1, name |-> 1, extra |-> 1, updated_at |-> 1]>>
    /\ idCounter = 1
    /\ clock = 1
    /\ uuid = 0
    /\ missing = "ignore"
    /\ strategy = "local-wins"
    /\ hist = [addLog |-> {}, burst |-> EmptyObj, skipped |-> {}, dropped |-> FALSE, removed |-> {}, held |-> {},
               pages |-> <<>>]
    /\ budget = [ops |-> MaxLoadingOps, fails |-> MaxFails, remote |-> MaxRemoteOps]

NextLoading ==
    \/ NextLocal
    \/ \E i \in DOMAIN cycles : ListReceived(i)
    \/ \E i \in DOMAIN cycles : ListReplied(i)
    \/ \E i \in DOMAIN cycles : AddReceived(i)
    \/ \E i \in DOMAIN cycles : AddReplied(i)
    \/ StartFirstLoad
    \/ \E i \in DOMAIN cycles : cycles[i].pc = "firstLoad" /\ FirstLoadPage(i, HonestPage(server, cycles[i].lastId))
    \/ \E i \in DOMAIN cycles : FirstLoadFail(i)
    \/ \E id \in ServerIds, f \in RemoteFields, v \in RemoteVals : RemoteEdit(id, f, v)
    \/ \E id \in ServerIds : RemoteDelete(id)

SpecLoading == InitLoading /\ [][NextLoading]_vars

----------------------------------------------------------------------------
(* index.ts 64-108, 262-273: persistence.  The persist middleware writes     *)
(* partialize(state) to storage on every change; a reload creates the store *)
(* anew and merges what storage holds into the creator's state.             *)

\* index.ts 262-273: the state the creator returns
CreatorState ==
    [items |-> <<>>,
     syncState |-> [status |-> "hydrating", error |-> NoError, enabled |-> FALSE,
                    firstLoadDone |-> FALSE, pendingChanges |-> <<>>, lastPulled |-> EmptyObj]]

\* index.ts 78-91: what is written to storage
partialize(W) ==
    [items |-> W.items,
     syncState |-> [firstLoadDone |-> W.ss.firstLoadDone,
                    pendingChanges |-> W.ss.pendingChanges,
                    lastPulled |-> W.ss.lastPulled]]

\* a property read: undefined (here its reading d) when the key is absent
Read(o, k, d) == IF k \in DOMAIN o THEN o[k] ELSE d

\* index.ts 92-108: persisted keys win, one level deep; status becomes 'idle'
merge(persisted, current) ==
    LET state == Spread(current, persisted)
        ss == Spread(state.syncState, [k \in {"status"} |-> "idle"])
    IN [items |-> state.items,
        ss |-> [status |-> ss.status,
                enabled |-> Read(ss, "enabled", FALSE),
                error |-> Read(ss, "error", NoError),
                firstLoadDone |-> Read(ss, "firstLoadDone", FALSE),
                pendingChanges |-> Read(ss, "pendingChanges", <<>>),
                lastPulled |-> Read(ss, "lastPulled", EmptyObj),
                conflicts |-> Read(ss, "conflicts", EmptyObj)]]

\* the store after a reload of the page: no cycle and no timer survive
rehydrate(W0) ==
    Once(LAMBDA W :
        [W EXCEPT !.items = merge(partialize(W), CreatorState).items,
                  !.ss = merge(partialize(W), CreatorState).ss,
                  !.cycles = <<>>]
    , W0)

Reload ==
    /\ timerOn' = FALSE
    /\ SetWorld(rehydrate(World))
    /\ UNCHANGED <<server, idCounter, clock, strategy, missing, budget>>

InitPersisted ==
    /\ InitShared
    /\ strategy = "try-shallow-merge"
    /\ budget = [ops |-> MaxLocalOps, fails |-> MaxFails, remote |-> MaxRemoteOps]

NextPersisted ==
    \/ Next
    \/ Reload

SpecPersisted == InitPersisted /\ [][NextPersisted]_vars

----------------------------------------------------------------------------
(* The same with a note of what a reload found: hist.open holds the local   *)
(* identities that had a tracked conflict when the store was created anew.  *)

Restart ==
    /\ timerOn' = FALSE
    /\ SetWorld([rehydrate(World) EXCEPT !.hist.open = @ \cup DOMAIN World.ss.conflicts])
    /\ UNCHANGED <<server, idCounter, clock, strategy, missing, budget>>

InitRestarted ==
    /\ items = <<>>
    /\ syncState = [status |-> "idle", enabled |-> FALSE, error |-> NoError,
                    firstLoadDone |-> FALSE, pendingChanges |-> <<>>,
                    lastPulled |-> EmptyObj, conflicts |-> EmptyObj]
    /\ timerOn = FALSE
    /\ cycles = <<>>
    /\ server = <<>>
    /\ idCounter = 0
    /\ clock = 0
    /\ uuid = 0
    /\ missing = "ignore"
    /\ strategy = "try-shallow-merge"
    /\ hist = [addLog |-> {}, burst |-> EmptyObj, skipped |-> {}, dropped |-> FALSE, removed |-> {}, held |-> {},
               open |-> {}]
    /\ budget = [ops |-> MaxLocalOps, fails |-> MaxFails, remote |-> MaxRemoteOps]

NextRestarted ==
    \/ Next
    \/ Restart

SpecRestarted == InitRestarted /\ [][NextRestarted]_vars

----------------------------------------------------------------------------
(* Resolving a conflict in favour of the server.  Another client rewrites   *)
(* both fields of a record in one update; the application answers every     *)
(* tracked conflict with resolveConflict(localId, false), and after that    *)
(* nothing changes any more, locally or on the server, while the sync       *)
(* cycles go on.  hist.resolved holds the identities resolved that way.     *)

RemoteRewrite(id, v, w) ==
    /\ budget.remote > 0
    /\ hist.resolved = {}
    /\ ServerIndex(server, id) # 0
    /\ Get(server[ServerIndex(server, id)], "name") # v
    /\ budget' = [budget EXCEPT !.remote = @ - 1]
    /\ server' = ServerAssign(server, id, [name |-> v, extra |-> w], clock + 1)
    /\ clock' = clock + 1
    /\ UNCHANGED <<items, syncState, timerOn, cycles, idCounter, uuid, strategy, missing, hist>>

ResolveRemote(lid) ==
    /\ lid \in DOMAIN syncState.conflicts
    /\ SetWorld([resolveConflict(World, lid, FALSE) EXCEPT !.hist.resolved = @ \cup {lid}])
    /\ UNCHANGED <<timerOn, server, idCounter, clock, strategy, missing, budget>>

InitResolving ==
    /\ items = <<>>
    /\ syncState = [status |-> "idle", enabled |-> FALSE, error |-> NoError,
                    firstLoadDone |-> FALSE, pendingChanges |-> <<>>,
                    lastPulled |-> EmptyObj, conflicts |-> EmptyObj]
    /\ timerOn = FALSE
    /\ cycles = <<>>
    /\ server = <<>>
    /\ idCounter = 0
    /\ clock = 0
    /\ uuid = 0
    /\ missing = "ignore"
    /\ strategy = "try-shallow-merge"
    /\ hist = [addLog |-> {}, burst |-> EmptyObj, skipped |-> {}, dropped |-> FALSE, removed |-> {}, held |-> {},
               resolved |-> {}]
    /\ budget = [ops |-> MaxLocalOps, fails |-> 0, remote |-> MaxRemoteOps]

NextResolving ==
    \/ hist.resolved = {} /\ \E v \in Vals : LocalAdd(v)
    \/ hist.resolved = {} /\ \E lid \in LocalIds, f \in UserFields, v \in Vals : LocalUpdate(lid, f, v)
    \/ \E id \in ServerIds, v \in RemoteVals, w \in RemoteVals : RemoteRewrite(id, v, w)
    \/ \E lid \in DOMAIN syncState.conflicts : ResolveRemote(lid)
    \/ Enable(TRUE)
    \/ Tick
    \/ \E i \in DOMAIN cycles : ListOk(i)
    \/ \E i \in DOMAIN cycles : AddOk(i)
    \/ \E i \in DOMAIN cycles : UpdateOk(i)

SpecResolving == InitResolving /\ [][NextResolving]_vars

----------------------------------------------------------------------------
(* Cycles that re-trigger themselves.  Every collaborator call succeeds and *)
(* returns; the application makes a bounded number of changes and another   *)
(* client edits a record.  hist.beat flips with every call of api.list, so  *)
(* that two consecutive cycles are two different states.                    *)

MaxChainOps == 2

ListAnswered(i) ==
    /\ cycles[i].pc = "list"
    /\ SetWorld([StartPush(pull(World, StateKey, ServerList(server, cycles[i].since),
                                cycles[i].since, strategy), i)
                    EXCEPT !.hist.beat = 1 - @])
    /\ UNCHANGED <<timerOn, server, idCounter, clock, strategy, missing, budget>>

InitChain ==
    /\ items = <<>>
    /\ syncState = [status |-> "idle", enabled |-> FALSE, error |-> NoError,
                    firstLoadDone |-> FALSE, pendingChanges |-> <<>>,
                    lastPulled |-> EmptyObj, conflicts |-> EmptyObj]
    /\ timerOn = FALSE
    /\ cycles = <<>>
    /\ server = <<>>
    /\ idCounter = 0
    /\ clock = 0
    /\ uuid = 0
    /\ missing = "ignore"
    /\ strategy = "try-shallow-merge"
    /\ hist = [addLog |-> {}, burst |-> EmptyObj, skipped |-> {}, dropped |-> FALSE, removed |-> {}, held |-> {},
               beat |-> 0]
    /\ budget = [ops |-> MaxChainOps, fails |-> 0, remote |-> MaxRemoteOps]

NextChain ==
    \/ \E v \in Vals : LocalAdd(v)
    \/ \E lid \in LocalIds, f \in UserFields, v \in Vals : LocalUpdate(lid, f, v)
    \/ \E id \in ServerIds, f \in RemoteFields, v \in RemoteVals : RemoteEdit(id, f, v)
    \/ \E lid \in DOMAIN syncState.conflicts, k \in BOOLEAN : ResolveConflict(lid, k)
    \/ Enable(TRUE)
    \/ Tick
    \/ \E i \in DOMAIN cycles : ListAnswered(i)
    \/ \E i \in DOMAIN cycles : AddOk(i)
    \/ \E i \in DOMAIN cycles : UpdateOk(i)

Answers ==
    \E i \in DOMAIN cycles : ListAnswered(i) \/ AddOk(i) \/ UpdateOk(i)

SpecChain ==
    /\ InitChain
    /\ [][NextChain]_vars
    /\ WF_vars(Answers)

----------------------------------------------------------------------------
(* Everything that can raise inside a cycle.  Besides the collaborator      *)
(* calls, the hooks onAfterRemoteAdd and onMissingRemoteRecordDuringUpdate  *)
(* may raise, and the store may have been created with a collaborator that  *)
(* lacks a function (budget.api = "incomplete"): findApi then raises in the *)
(* pull loop and for every change of the push loop.  Every call that was    *)
(* made returns or raises.                                                  *)

Apis == {"complete", "incomplete"}

\* push.ts 108-127: api.add returned, the record and the queue were updated,
\* then onAfterRemoteAdd raised; index.ts 158-161 catches
AddHookRaised(W0, i, result, err) ==
    Once(LAMBDA W :
        LET change == W.cycles[i].cur
            W1 == [W EXCEPT !.items =
                            [j \in DOMAIN @ |-> IF Get(@[j], "_localId") = change.localId
                                                THEN Spread(@[j], result) ELSE @[j]]]
        IN PushFailed(AfterAdd(W1, change, result), i, err)
    , W0)

\* push.ts 57-102: api.update found no record, the strategy was applied, then
\* onMissingRemoteRecordDuringUpdate raised
MissingHookRaised(W0, i, strat, now, err) ==
    Once(LAMBDA W :
        PushFailed(MissingRemote(W, W.cycles[i].cur, strat, now), i, err)
    , W0)

\* index.ts 114-176 with a collaborator findApi rejects: no call is awaited,
\* the cycle runs to its final set in one piece
syncOnceNoApi(W0, err) ==
    Once(LAMBDA W :
        IF ~W.ss.enabled \/ W.ss.status # "idle" THEN W
        ELSE [W EXCEPT !.ss.status = "idle", !.ss.error = err]
    , W0)

AddOkHookRaises(i) ==
    /\ cycles[i].pc = "add"
    /\ budget.fails > 0
    /\ budget' = [budget EXCEPT !.fails = @ - 1]
    /\ LET srv == ServerAdd(server, cycles[i].cur.changes, idCounter + 1, clock + 1)
           rec == srv[Len(srv)]
       IN /\ server' = srv
          /\ SetWorld(AddHookRaised([World EXCEPT !.hist.addLog = @ \cup {<<cycles[i].cur.localId, Len(srv)>>}],
                                    i, [id |-> rec["id"], updated_at |-> rec["updated_at"]],
                                    Raised("onAfterRemoteAdd")))
    /\ idCounter' = idCounter + 1
    /\ clock' = clock + 1
    /\ UNCHANGED <<timerOn, strategy, missing>>

UpdateMissingHookRaises(i) ==
    /\ cycles[i].pc = "update"
    /\ budget.fails > 0
    /\ ServerIndex(server, cycles[i].cur.id) = 0
    /\ CurrOf(items, cycles[i].cur.localId) # Null
    /\ budget' = [budget EXCEPT !.fails = @ - 1]
    /\ SetWorld(MissingHookRaised(World, i, missing, clock, Raised("onMissingRemoteRecordDuringUpdate")))
    /\ UNCHANGED <<timerOn, server, idCounter, clock, strategy, missing>>

\* enable(true) of a store whose collaborator is incomplete
EnableNoApi ==
    /\ ~syncState.enabled
    /\ timerOn' = TRUE
    /\ SetWorld(syncOnceNoApi([World EXCEPT !.ss.enabled = TRUE], Raised("findApi")))
    /\ UNCHANGED <<server, idCounter, clock, strategy, missing, budget>>

\* the interval timer fires in such a store
TickNoApi ==
    /\ timerOn
    /\ SetWorld(syncOnceNoApi(World, Raised("findApi")))
    /\ UNCHANGED <<timerOn, server, idCounter, clock, strategy, missing, budget>>

InitRaising ==
    /\ InitShared
    /\ strategy = "local-wins"
    /\ \E api \in Apis :
          budget = [ops |-> MaxLocalOps, fails |-> MaxFails, remote |-> MaxRemoteOps, api |-> api]

NextRaising ==
    \/ budget.api = "complete" /\ NextLocal
    \/ budget.api = "complete" /\ \E i \in DOMAIN cycles : AddOkHookRaises(i)
    \/ budget.api = "complete" /\ \E i \in DOMAIN cycles : UpdateMissingHookRaises(i)
    \/ budget.api = "complete" /\ \E id \in ServerIds : RemotePurge(id)
    \/ budget.api = "incomplete" /\ ~syncState.enabled /\ \E v \in Vals : LocalAdd(v)
    \/ budget.api = "incomplete" /\ EnableNoApi
    \/ budget.api = "incomplete" /\ TickNoApi
    \/ budget.api = "incomplete" /\ Enable(FALSE)

Outcome ==
    \E i \in DOMAIN cycles :
        \/ ListOk(i) \/ ListFail(i)
        \/ AddOk(i) \/ UpdateOk(i) \/ RemoveOk(i) \/ CallFail(i)
        \/ AddOkHookRaises(i) \/ UpdateMissingHookRaises(i)

SpecRaising ==
    /\ InitRaising
    /\ [][NextRaising]_vars
    /\ WF_vars(Outcome)

----------------------------------------------------------------------------
(* Properties *)

Q == syncState.pendingChanges

\* the queue entries of a local record
Entries(lid) == {e \in Range(Q) : e.localId = lid /\ e.stateKey = StateKey}

LiveServerIds == {server[j]["id"] : j \in {k \in DOMAIN server : Get(server[k], "deleted") = Undef}}

\* C1: while a Remove for server identity X is queued, no local record has
\* identity X: no pull has inserted or merged one, even when the server still
\* lists X as live.
NoPullRevivesPendingRemove ==
    \A e \in Range(Q) :
        (e.action = "remove" /\ e.id # Undef) =>
            \A j \in DOMAIN items : Get(items[j], "id") # e.id

\* a pull met a live server record whose Remove is queued, and left it out
PullSkippedLiveRecord ==
    \E x \in hist.skipped :
        /\ x \in LiveServerIds
        /\ \E e \in Range(Q) : e.action = "remove" /\ e.id = x
        /\ \A j \in DOMAIN items : Get(items[j], "id") # x

\* the server records that are copies of a removed record
ServerCopies(r) ==
    {j \in DOMAIN server :
        <<r.localId, j>> \in hist.addLog \/ (r.id # Undef /\ server[j]["id"] = r.id)}

\* nothing is queued or in flight, and the application does nothing more
Settled == cycles = <<>> /\ Q = <<>> /\ budget.ops = 0

\* C2: when the run has settled, every record the application removed is
\* absent locally, each server copy of it is flagged deleted, and no local
\* record carries the identity of such a copy.
RemovedRecordGone ==
    Settled =>
        \A r \in hist.removed :
            /\ r.localId \notin LocalIds
            /\ \A j \in ServerCopies(r) :
                  /\ Get(server[j], "deleted") # Undef
                  /\ \A k \in DOMAIN items : Get(items[k], "id") # server[j]["id"]

LocalView == {[id |-> Get(items[j], "id"), name |-> Get(items[j], "name")] : j \in DOMAIN items}

ServerView ==
    {[id |-> server[j]["id"], name |-> Get(server[j], "name")] :
        j \in {k \in DOMAIN server : Get(server[k], "deleted") = Undef}}

Converged ==
    /\ Q = <<>>
    /\ \A j \in DOMAIN items : Get(items[j], "id") # Undef
    /\ LocalView = ServerView

\* C3: with the default strategies, whatever the interleaving of local
\* operations, sync cycles and failing calls, the run reaches and keeps a
\* state with an empty queue, a server identity on every local record, and
\* the same {id, name} pairs locally as among the non-deleted server records.
EventuallyConverged == <>[]Converged

\* converged after an addition, a removal and a failed call
ConvergedAfterFailure ==
    /\ Converged
    /\ budget.ops = 0
    /\ budget.fails < MaxFails
    /\ items # <<>>
    /\ \E j \in DOMAIN server : Get(server[j], "deleted") # Undef

\* C4: at most one sync cycle is active, and one is active exactly while the
\* status is 'syncing': a trigger that arrives meanwhile starts none.
OneCycleAtATime ==
    /\ Len(cycles) <= 1
    /\ Len(cycles) = 1 <=> syncState.status = "syncing"

\* a trigger arrived during the running cycle
TriggerDroppedMidCycle ==
    hist.dropped /\ Len(cycles) = 1 /\ syncState.status = "syncing"

\* C5: for each locally created record api.add has succeeded at most once.
AddSucceedsOnce ==
    \A a, b \in hist.addLog : a[1] = b[1] => a = b

\* a record edited while its add was in flight, after the add and the
\* follow-up update both went through, a trigger having been dropped
AddedThenUpdated ==
    \E a \in hist.addLog :
        /\ hist.dropped
        /\ a[1] \in LocalIds
        /\ Entries(a[1]) = {}
        /\ clock >= 2
        /\ Cardinality(hist.addLog) = 1

BurstCoalesced ==
    \A lid \in DOMAIN hist.burst :
        /\ Cardinality(Entries(lid)) = 1
        /\ \A e \in Entries(lid) :
              /\ e.version = hist.burst[lid].n
              /\ e.changes = hist.burst[lid].acc

\* two or more updates coalesced
BurstOfSeveral ==
    \E lid \in DOMAIN hist.burst : hist.burst[lid].n >= 2

\* C8: the entry of a record, once its action is Remove, keeps that action
\* for as long as it is queued.
RemoveStaysRemove ==
    [][\A e \in Range(Q) :
          e.action = "remove" =>
              \A e2 \in Range(Q') :
                  (e2.localId = e.localId /\ e2.stateKey = e.stateKey) => e2.action = "remove"]_vars

\* api.add (a record appears on the server) or api.update (true) returns to cycle i
CallSucceeds(i) ==
    \/ cycles[i].pc = "add" /\ Len(server') = Len(server) + 1
    \/ cycles[i].pc = "update" /\ clock' # clock /\ budget' = budget

\* what the return of a successful call may do to the entry of its record
KeepsNewerEdits(i) ==
    LET change == cycles[i].cur
        pre == Entries(change.localId)
        post == {e \in Range(Q') : e.localId = change.localId /\ e.stateKey = StateKey}
    IN /\ (pre # {} /\ post = {}) => \A e \in pre : e.version = change.version
       /\ \A e \in pre :
             (e.version # change.version /\ e.action # "remove") =>
                 /\ post # {}
                 /\ \A e2 \in post :
                       /\ e2.action = "update"
                       /\ e2.version = e.version
                       /\ e2.changes = e.changes
                       /\ cycles[i].pc = "add" => e2.id = server'[Len(server')]["id"]

\* C9: when add returns a result or update returns true, the entry leaves the
\* queue only if its version is the one the dispatch captured; an entry the
\* application updated meanwhile stays, with its edits, as an Update (after a
\* Create with the new server identity).
DiscardOnlyIfUnchanged ==
    [][\A i \in DOMAIN cycles : CallSucceeds(i) => KeepsNewerEdits(i)]_vars

\* the entry of an added record that was edited during the add
EditedDuringAdd ==
    \E a \in hist.addLog :
        \E e \in Entries(a[1]) :
            /\ a[1] \in LocalIds
            /\ e.action = "update"
            /\ e.version >= 2
            /\ e.id = server[a[2]]["id"]

PulledBatch(i) == ServerList(server, cycles[i].since)

\* the step in which the pull of cycle i merges its batch into the store
MergesBatch(i) == cycles[i].pc = "list" /\ syncState'.lastPulled # syncState.lastPulled

\* <<remote, entry>>: a live record of the batch whose removal is not pending,
\* and the queue entry of the local record that carries its id
Matches(i) ==
    {m \in Range(PulledBatch(i)) \X Range(Q) :
        /\ Get(m[1], "deleted") = Undef
        /\ m[1]["id"] \notin PendingRemovalById(Q, StateKey)
        /\ LocalById(items, m[1]["id"]) # Null
        /\ m[2].stateKey = StateKey
        /\ m[2].localId = LocalById(items, m[1]["id"])["_localId"]}

\* the fields the entry edited that the remote record holds with a value
\* other than the one before the edit and other than the local one
Disagreeing(e, r) ==
    {k \in DOMAIN e.changes :
        /\ k \in DOMAIN e.before
        /\ k \in DOMAIN r
        /\ e.before[k] # r[k]
        /\ e.changes[k] # r[k]}

MergedWithoutConflict ==
    [][\A i \in DOMAIN cycles :
          (strategy = "try-shallow-merge" /\ MergesBatch(i)) =>
              \A m \in Matches(i) :
                  Disagreeing(m[2], m[1]) = {} =>
                      LET lid == m[2].localId
                          old == CurrOf(items, lid)
                          new == CurrOf(items', lid)
                      IN /\ new # Null
                         /\ \A k \in ((DOMAIN old) \cup (DOMAIN m[1]) \cup (DOMAIN new)) \ {"_localId", "deleted"} :
                               Get(new, k) = IF k \in DOMAIN m[2].changes THEN Get(old, k) ELSE Get(m[1], k)
                         /\ m[2] \in Range(Q')
                         /\ lid \notin DOMAIN syncState'.conflicts]_vars

\* a record that took a remote edit of one field while its own edit of the
\* other field is pending
MergedBesideLocalEdit ==
    /\ strategy = "try-shallow-merge"
    /\ \E j \in DOMAIN items, s \in DOMAIN server :
          /\ Get(items[j], "id") = server[s]["id"]
          /\ \E e \in Entries(items[j]["_localId"]) :
                \E f \in UserFields, g \in UserFields :
                    /\ e.action = "update"
                    /\ DOMAIN e.changes = {f}
                    /\ items[j][f] = e.changes[f]
                    /\ items[j][f] # server[s][f]
                    /\ g \in DOMAIN e.before
                    /\ items[j][g] = server[s][g]
                    /\ items[j][g] # e.before[g]

\* C13: under remote-wins, a pulled live record that matches a local record
\* with a pending change replaces the fields of the local record (which keeps
\* its local identity), and the pending entry leaves the queue.
RemoteWinsOverwrites ==
    [][\A i \in DOMAIN cycles :
          (strategy = "remote-wins" /\ MergesBatch(i)) =>
              \A m \in Matches(i) :
                  LET lid == m[2].localId
                      new == CurrOf(items', lid)
                  IN /\ new # Null
                     /\ \A k \in (DOMAIN m[1]) \ {"deleted"} : Get(new, k) = m[1][k]
                     /\ ~\E e \in Range(Q') : e.localId = lid /\ e.stateKey = StateKey]_vars

Resolved(lid, keepLocal) == resolveConflict(World, lid, keepLocal)

\* C15: resolveConflict on a tracked conflict removes the conflict entry of
\* the record; keeping the remote side also sets every conflicting field of
\* the local record to the recorded remote value and removes the record's
\* queue entry; keeping the local side leaves the records and the queue as
\* they are; without a tracked conflict the whole state stays as it is.
ConflictResolved ==
    \A lid \in 1..uuid, keepLocal \in BOOLEAN :
        IF lid \in DOMAIN syncState.conflicts
        THEN /\ lid \notin DOMAIN Resolved(lid, keepLocal).ss.conflicts
             /\ keepLocal =>
                   /\ Resolved(lid, keepLocal).items = items
                   /\ Resolved(lid, keepLocal).ss.pendingChanges = Q
             /\ ~keepLocal =>
                   /\ \A f \in syncState.conflicts[lid].fields :
                         Get(CurrOf(Resolved(lid, keepLocal).items, lid), f.key) = f.remoteValue
                   /\ ~\E e \in Range(Resolved(lid, keepLocal).ss.pendingChanges) :
                         e.localId = lid /\ e.stateKey = StateKey
        ELSE Resolved(lid, keepLocal) = World

\* the step in which api.list returns to cycle i and the batch is merged
PullStep(i) == cycles[i].pc = "list" /\ budget' = budget /\ cycles' # cycles

Watermark == Get(syncState.lastPulled, StateKey)

MaxOf(S) == CHOOSE x \in S : \A y \in S : y <= x

\* C16: no step lowers the lastPulled watermark, and a pull leaves it at the
\* maximum of its previous value and the updated_at values of the returned
\* batch, skipped and soft-deleted records included.
WatermarkAdvances ==
    [][/\ Watermark' >= Watermark
       /\ \A i \in DOMAIN cycles :
             PullStep(i) =>
                 Watermark' = MaxOf({Watermark} \cup {r["updated_at"] : r \in Range(PulledBatch(i))})]_vars

\* the watermark stands at the timestamp of a soft-deleted server record
WatermarkAtDeletion ==
    \E s \in DOMAIN server :
        /\ Get(server[s], "deleted") # Undef
        /\ Watermark = server[s]["updated_at"]

\* the step in which a collaborator call raises
FailStep == budget'.fails < budget.fails

\* the part of the snapshot cycle i has still to go through when its call returns
Remaining(i) ==
    IF cycles[i].pc = "list"
    THEN [j \in DOMAIN Q |-> [oid |-> SortByOrder(Q)[j].oid, dead |-> Null]]
    ELSE cycles[i].snap

\* the elements of it that lead to a collaborator call, given the conflicts
\* tracked when the push loop reaches them
ToCall(i) ==
    SelectSeq(Remaining(i),
              LAMBDA el : \/ Deref(World, el).action = "create"
                          \/ Deref(World, el).action = "update"
                               /\ Deref(World, el).localId \notin DOMAIN syncState'.conflicts
                          \/ Deref(World, el).action = "remove" /\ Deref(World, el).id # Undef)

CallOf(change) == IF change.action = "create" THEN "add" ELSE change.action

FirstError(i) ==
    IF cycles[i].err # NoError THEN cycles[i].err
    ELSE IF FailStep THEN [call |-> cycles[i].pc, left |-> budget.fails]
    ELSE NoError

\* the step in which cycle i ends
CycleEnds(i) ==
    \/ syncState.status = "syncing" /\ syncState'.status = "idle"
    \/ cycles[i].pc # "list" /\ i \in DOMAIN cycles' /\ cycles'[i].pc = "list"

\* C18: the error a cycle holds is the first one raised in it, in processing
\* order: a later failure of the same cycle does not replace it; at the end
\* of the cycle syncState.error takes it, and is undefined after a cycle
\* without failure.
FirstErrorWins ==
    [][\A i \in DOMAIN cycles :
          /\ i \in DOMAIN cycles' => cycles'[i].err = FirstError(i)
          /\ CycleEnds(i) => syncState'.error = FirstError(i)]_vars

\* both failures fell into the cycle that ended last, and error is the first
BothFailuresInOneCycle ==
    /\ syncState.status = "idle"
    /\ budget.fails = MaxFailsFaulty - 2
    /\ syncState.error # NoError
    /\ syncState.error.left = MaxFailsFaulty

\* C19: syncState.error is cleared when a cycle starts: while a cycle runs
\* (status 'syncing') it does not hold the failure an earlier cycle recorded.
ErrorClearedWhileSyncing ==
    syncState.status = "syncing" => syncState.error = NoError

\* a step in which a cycle starts
CycleStarts ==
    \E i \in DOMAIN cycles' :
        cycles'[i].pc = "list" /\ (i \notin DOMAIN cycles \/ cycles[i].pc # "list")

\* C20: enable(false) leaves a running cycle as it is, and the cycle ends
\* only when no change of its snapshot that needs a call is left; while sync
\* stays disabled no cycle starts, whatever the trigger, and an idle engine
\* stays idle.
DisabledStartsNothing ==
    [][/\ (syncState.enabled /\ ~syncState'.enabled) =>
             cycles' = cycles /\ syncState'.status = syncState.status /\ Q' = Q
       /\ (~syncState.enabled /\ ~syncState'.enabled) =>
             /\ ~CycleStarts
             /\ syncState.status = "idle" => syncState'.status = "idle"
       /\ ~syncState.enabled =>
             \A i \in DOMAIN cycles : i \notin DOMAIN cycles' => ToCall(i) = <<>>]_vars

\* sync was disabled while the cycle was running, and the cycle is pushing
PushingWhileDisabled ==
    /\ ~syncState.enabled
    /\ syncState.status = "syncing"
    /\ \E i \in DOMAIN cycles : cycles[i].pc \in {"add", "update", "remove"}

\* C21: what a reload brings back: firstLoadDone, pendingChanges, lastPulled
\* and conflicts as they were, status 'idle' and error undefined.
PersistRoundTrip ==
    /\ rehydrate(World).ss.firstLoadDone = syncState.firstLoadDone
    /\ rehydrate(World).ss.pendingChanges = Q
    /\ rehydrate(World).ss.lastPulled = syncState.lastPulled
    /\ rehydrate(World).ss.conflicts = syncState.conflicts
    /\ rehydrate(World).ss.status = "idle"
    /\ rehydrate(World).ss.error = NoError

\* the step in which api.update returns false to cycle i for a record that
\* is still in the collection
UpdateFindsNothing(i) ==
    /\ cycles[i].pc = "update"
    /\ budget' = budget
    /\ cycles' # cycles
    /\ ServerIndex(server, cycles[i].cur.id) = 0
    /\ CurrOf(items, cycles[i].cur.localId) # Null

\* C22: when api.update returns false under insert-remote-record, the entry
\* of the old local identity leaves the queue and the record is replaced by
\* a copy with a fresh local identity, no server identity and the current
\* timestamp, for which exactly one Create entry with the record's fields,
\* without sync fields, is queued.
MissingRecordReinserted ==
    [][\A i \in DOMAIN cycles :
          (missing = "insert-remote-record" /\ UpdateFindsNothing(i)) =>
              LET lid == cycles[i].cur.localId
                  old == CurrOf(items, lid)
                  fresh == {j \in DOMAIN items' : items'[j]["_localId"] \notin LocalIds}
              IN /\ ~\E e \in Range(Q') : e.localId = lid /\ e.stateKey = StateKey
                 /\ lid \notin {items'[j]["_localId"] : j \in DOMAIN items'}
                 /\ Cardinality(fresh) = 1
                 /\ \A j \in fresh :
                       /\ Get(items'[j], "id") = Undef
                       /\ items'[j]["updated_at"] = clock
                       /\ \A f \in UserFields : Get(items'[j], f) = Get(old, f)
                       /\ Cardinality({k \in DOMAIN Q' : Q'[k].localId = items'[j]["_localId"]}) = 1
                       /\ \A e \in Range(Q') :
                             e.localId = items'[j]["_localId"] =>
                                 /\ e.action = "create"
                                 /\ (DOMAIN e.changes) \cap SYNC_FIELDS = {}
                                 /\ \A f \in UserFields : Get(e.changes, f) = Get(old, f)]_vars

\* the step in which api.firstLoad returns a page, and that page with the
\* load it belongs to
PageReturns == Len(hist'.pages) = Len(hist.pages) + 1

Returned == hist'.pages[Len(hist'.pages)]

\* the page the same load received before, or <<>> if this is its first one
PageBefore ==
    LET idx == {k \in DOMAIN hist.pages : hist.pages[k].pid = Returned.pid}
    IN IF idx = {} THEN <<>> ELSE hist.pages[CHOOSE k \in idx : \A j \in idx : j <= k].page

TrailingId(page) == page[Len(page)]["id"]

SameCursorTwice ==
    /\ Returned.page # <<>>
    /\ PageBefore # <<>>
    /\ TrailingId(Returned.page) = TrailingId(PageBefore)

Loads(cs) == {cs[i].pid : i \in {j \in DOMAIN cs : cs[j].pc = "firstLoad"}}

\* C23: a load ends, with the failure in syncState.error, at the second of
\* two consecutive non-empty pages that end with the same id; it ends at an
\* empty page; after any other page it asks for the next one, from the id
\* the page ended with.
PaginationStops ==
    [][PageReturns =>
          IF SameCursorTwice
          THEN Loads(cycles') = Loads(cycles) \ {Returned.pid} /\ syncState'.error = DuplicateRecords
          ELSE IF Returned.page = <<>>
               THEN Loads(cycles') = Loads(cycles) \ {Returned.pid}
               ELSE /\ Loads(cycles') = Loads(cycles)
                    /\ \E i \in DOMAIN cycles' :
                          cycles'[i].pid = Returned.pid /\ cycles'[i].lastId = TrailingId(Returned.page)]_vars

\* a load was stopped by the cursor check at its second non-empty page
StoppedByCursor ==
    /\ syncState.error = DuplicateRecords
    /\ Len(hist.pages) >= 2
    /\ hist.pages[Len(hist.pages)].page # <<>>

OrderOfCall(pc) == CASE pc = "add" -> 1 [] pc = "update" -> 2 [] pc = "remove" -> 3

\* the step in which cycle i, one call of its push phase having returned or
\* raised, dispatches the next change of its snapshot
DispatchesNext(i) ==
    /\ cycles[i].pc \in {"add", "update", "remove"}
    /\ i \in DOMAIN cycles'
    /\ cycles'[i].pc \in {"add", "update", "remove"}
    /\ Len(cycles') = Len(cycles)
    /\ Len(cycles'[i].snap) < Len(cycles[i].snap)

\* C24: within one cycle a call never follows a call of a later kind: every
\* add comes before every update and every update before every remove.
DispatchOrder ==
    [][\A i \in DOMAIN cycles :
          DispatchesNext(i) => OrderOfCall(cycles[i].pc) <= OrderOfCall(cycles'[i].pc)]_vars

\* the step in which cycle i starts a collaborator call of its push phase
Dispatches(i) ==
    /\ cycles'[i].pc \in {"add", "update", "remove"}
    /\ i \in DOMAIN cycles => cycles'[i] # cycles[i]

\* the local records whose add has returned
Sent == {a[1] : a \in hist.addLog}

\* C25: as long as no call has raised, no collaborator call is started for a
\* record that is gone from the collection, whose add never returned and
\* whose id the server does not know: a record added and removed before its
\* Create was dispatched costs neither an add nor a remove, with or without
\* an id assigned by the client.
UnsentRecordNeedsNoCall ==
    [][\A i \in DOMAIN cycles' :
          (Dispatches(i) /\ budget'.fails = MaxFails) =>
              \/ cycles'[i].cur.localId \in Sent
              \/ cycles'[i].cur.localId \in {items'[j]["_localId"] : j \in DOMAIN items'}
              \/ ServerIndex(server', cycles'[i].cur.id) # 0]_vars

\* C26: after a pull has merged its batch, no local record carries the id
\* of a record the batch reports as deleted, unless the removal of that id
\* was pending; and no local record carries a deleted field.
DeletedRemotelyGone ==
    [][\A i \in DOMAIN cycles :
          MergesBatch(i) =>
              /\ \A r \in Range(PulledBatch(i)) :
                    (Get(r, "deleted") # Undef /\ r["id"] \notin PendingRemovalById(Q, StateKey)) =>
                        \A j \in DOMAIN items' : Get(items'[j], "id") # r["id"]
              /\ \A j \in DOMAIN items' : "deleted" \notin DOMAIN items'[j]]_vars

\* a record this client added was deleted by another client, and a pull has
\* dropped the local copy that the application had not removed
DroppedByPull ==
    \E a \in hist.addLog :
        /\ Get(server[a[2]], "deleted") # Undef
        /\ a[1] \notin LocalIds
        /\ a[1] \notin {r.localId : r \in hist.removed}

\* a restored record, whose deleted field is false, has come back by a pull
RestoredByPull ==
    \E s \in DOMAIN server :
        /\ "deleted" \in DOMAIN server[s]
        /\ Get(server[s], "deleted") = Undef
        /\ \E j \in DOMAIN items : Get(items[j], "id") = server[s]["id"] /\ items[j]["updated_at"] = server[s]["updated_at"]

\* the local identities of an array
IdsOf(list) == {Get(list[j], "_localId") : j \in DOMAIN list} \ {Undef}

\* the top-level fields, _localId aside, in which two records differ
Differing(curr, item) ==
    {k \in ((DOMAIN curr) \cup (DOMAIN item)) \ {"_localId"} : Get(curr, k) # Get(item, k)}

\* C27: for the collection before and after a set, findChanges returns one
\* entry for each local identity present only after (an addition, with the
\* record), one for each present only before (a removal), one for each
\* present in both whose records differ in some top-level field (an update,
\* whose difference map holds every differing field with its new value), and
\* nothing else.
FindChangesExact ==
    [][items' # items =>
          LET m == findChanges(items, items')
              of(lid) == {k \in DOMAIN m : m[k].localId = lid}
          IN /\ \A k \in DOMAIN m : m[k].localId \in IdsOf(items) \cup IdsOf(items')
             /\ \A lid \in IdsOf(items') \ IdsOf(items) :
                   /\ Cardinality(of(lid)) = 1
                   /\ \A k \in of(lid) :
                         m[k].currentItem = Null /\ m[k].updatedItem = CHOOSE it \in Range(items') : Get(it, "_localId") = lid
             /\ \A lid \in IdsOf(items) \ IdsOf(items') :
                   /\ Cardinality(of(lid)) = 1
                   /\ \A k \in of(lid) : m[k].updatedItem = Null
             /\ \A lid \in IdsOf(items) \cap IdsOf(items') :
                   LET curr == CHOOSE it \in Range(items) : Get(it, "_localId") = lid
                       item == CHOOSE it \in Range(items') : Get(it, "_localId") = lid
                   IN IF Differing(curr, item) = {} THEN of(lid) = {}
                      ELSE /\ Cardinality(of(lid)) = 1
                           /\ \A k \in of(lid) :
                                 /\ m[k].currentItem = curr /\ m[k].updatedItem = item
                                 /\ DOMAIN m[k].changes = Differing(curr, item)
                                 /\ \A f \in Differing(curr, item) : m[k].changes[f] = Get(item, f)]_vars

\* C28: when the application removes a record that has no queue entry, one
\* Remove entry is queued for it if the record has a server id, and the
\* queue gets no entry for it if it has none.
RemoveNeedsServerIdentity ==
    [][\A lid \in IdsOf(items) \ IdsOf(items') :
          LET curr == CHOOSE it \in Range(items) : Get(it, "_localId") = lid
              queued == {k \in DOMAIN Q' : Q'[k].localId = lid /\ Q'[k].stateKey = StateKey}
          IN (~\E e \in Range(Q) : e.localId = lid /\ e.stateKey = StateKey) =>
                IF Get(curr, "id") # Undef
                THEN Cardinality(queued) = 1 /\ \A k \in queued : Q'[k].action = "remove" /\ Q'[k].id = curr["id"]
                ELSE queued = {}]_vars

\* C29: no add and no update is started for a queue entry whose record is
\* not in the collection: the push loop discards such an entry without a
\* call.
OrphanEntryNotSent ==
    [][\A i \in DOMAIN cycles' :
          (Dispatches(i) /\ cycles'[i].pc \in {"add", "update"}) =>
              cycles'[i].cur.localId \in {items'[j]["_localId"] : j \in DOMAIN items'}]_vars

\* the step in which api.add returns undefined
AddReturnsNothing == budget'.silent < budget.silent

\* C30: when api.add returns undefined for an entry whose version is still
\* the dispatched one, the entry leaves the queue, the cycle's error stays
\* as it was and the record keeps having no id; and when the application
\* then updates a record that has no id and no queue entry, the entry queued
\* for it is a Create.
SilentAddRetriedAsCreate ==
    [][/\ \A i \in DOMAIN cycles :
             (AddReturnsNothing /\ cycles[i].pc = "add"
                /\ \E e \in Range(Q) : /\ e.localId = cycles[i].cur.localId
                                       /\ e.version = cycles[i].cur.version) =>
                 /\ ~\E e \in Range(Q') : e.localId = cycles[i].cur.localId
                 /\ IF i \in DOMAIN cycles' /\ cycles'[i].pc # "list"
                    THEN cycles'[i].err = cycles[i].err
                    ELSE syncState'.error = cycles[i].err
                 /\ \A j \in DOMAIN items' :
                       items'[j]["_localId"] = cycles[i].cur.localId => Get(items'[j], "id") = Undef
       /\ \A lid \in LocalIds :
             (/\ budget'.ops < budget.ops
              /\ lid \in {items'[j]["_localId"] : j \in DOMAIN items'}
              /\ CurrOf(items', lid) # CurrOf(items, lid)
              /\ Get(CurrOf(items, lid), "id") = Undef
              /\ ~\E e \in Range(Q) : e.localId = lid) =>
                 \A e \in Range(Q') : e.localId = lid => e.action = "create"]_vars

\* C31: when a first load merges a page, no local record is left with the id
\* of a record the page reports as deleted.
FirstLoadDropsDeleted ==
    [][PageReturns =>
          \A k \in DOMAIN Returned.page :
              Get(Returned.page[k], "deleted") # Undef =>
                  \A j \in DOMAIN items' : Get(items'[j], "id") # Returned.page[k]["id"]]_vars

\* C32: no two local records carry the same server id.
ServerIdentityUnique ==
    \A j, k \in DOMAIN items :
        (j # k /\ Get(items[j], "id") # Undef) => Get(items[j], "id") # Get(items[k], "id")

\* C33: no step lowers the lastPulled watermark of the collection.
WatermarkNeverLowered ==
    [][Get(syncState'.lastPulled, StateKey) >= Get(syncState.lastPulled, StateKey)]_vars

\* C34: api.update is not called for a record whose conflict was tracked,
\* and not resolved, when the store was persisted and created anew.  (The
\* other client makes one change only, so no later pull returns the record
\* again and clears the conflict.)
ConflictHoldsAcrossReload ==
    [][\A i \in DOMAIN cycles' :
          (Dispatches(i) /\ cycles'[i].pc = "update") => cycles'[i].cur.localId \notin hist.open]_vars

\* nothing is left to do: no cycle runs, nothing is queued, and the watermark
\* has passed every server record, so a further cycle pulls and pushes nothing
NothingLeft ==
    /\ cycles = <<>>
    /\ syncState.pendingChanges = <<>>
    /\ \A j \in DOMAIN server : server[j]["updated_at"] <= Get(syncState.lastPulled, StateKey)

AgreesWithServer(lid) ==
    \A j \in DOMAIN items : items[j]["_localId"] = lid =>
        \A k \in DOMAIN server : server[k]["id"] = Get(items[j], "id") =>
            \A f \in UserFields : Get(items[j], f) = Get(server[k], f)

\* C35: once the sync cycles have nothing left to do, a record whose conflict
\* was resolved with resolveConflict(localId, false) has the server's value
\* in every non-sync field.
ResolvedRemoteAgrees ==
    NothingLeft => \A lid \in hist.resolved : AgreesWithServer(lid)

\* C36: when every call returns, the orchestrator is again and again at rest
\* with no cycle running (it waits for the timer), also while a queued Update
\* is held back by a tracked conflict.
ChainOfCyclesEnds == []<>(cycles = <<>>)

\* C37: every queued Create or Update entry refers to a record that is in
\* the collection.
QueuedChangeHasRecord ==
    \A n \in DOMAIN syncState.pendingChanges :
        syncState.pendingChanges[n].action \in {"create", "update"} =>
            \E j \in DOMAIN items : items[j]["_localId"] = syncState.pendingChanges[n].localId

\* C38: every tracked conflict belongs to a record that is in the collection
\* and has a queued Update entry.
ConflictHasRecordAndUpdate ==
    \A lid \in DOMAIN syncState.conflicts :
        /\ \E j \in DOMAIN items : items[j]["_localId"] = lid
        /\ \E n \in DOMAIN syncState.pendingChanges :
              /\ syncState.pendingChanges[n].localId = lid
              /\ syncState.pendingChanges[n].action = "update"

\* C39: the step that sets firstLoadDone is the end of a first load in which
\* nothing raised: it leaves no error behind.
FirstLoadDoneOnlyOnSuccess ==
    [][(~syncState.firstLoadDone /\ syncState'.firstLoadDone) => syncState'.error = NoError]_vars

\* C40: whenever a cycle is running, the run reaches a state in which no
\* cycle runs and status is 'idle'; with an incomplete collaborator status is
\* 'idle' after every step.
CycleReturnsToIdle ==
    /\ (cycles # <<>>) ~> (cycles = <<>> /\ syncState.status = "idle")
    /\ [](budget.api = "incomplete" => syncState.status = "idle")

\* the cycle in which onAfterRemoteAdd raised is over and status is 'idle'
IdleAfterRaise ==
    /\ cycles = <<>>
    /\ syncState.status = "idle"
    /\ syncState.error.call = "onAfterRemoteAdd"

====
